---- MODULE Spec2Model ----
(***************************************************************************)
(* A model of the session layer of the go-sqlite3 driver: one Conn with    *)
(* its Stmt, Rows and Tx objects, driven by concurrent callers, on top of  *)
(* the native sqlite3 call surface.                                        *)
(*                                                                         *)
(* Every caller is a process with a program counter.  An action is the     *)
(* code of one operation from a blocking point (call entry, sync.Mutex     *)
(* Lock, return of a native call) up to the next native call or the        *)
(* return of the operation.  A native call is in flight from the action    *)
(* that issues it until the next action of the same process.               *)
(***************************************************************************)
EXTENDS Integers, Sequences, FiniteSets, TLC

\* ------------------------------------------------------------ bounds
NProcs == 2          \* concurrent callers sharing the connection
MaxTxs == 3          \* Tx objects ever created
MaxStmts == 2        \* Stmt objects ever created, and native statement handles
MaxRows == 1         \* Rows objects ever created
MaxParams == 1       \* parameters of a prepared query
MaxCols == 1         \* columns of a prepared query
MaxCalls == 5        \* operations invoked in one behaviour of concurrent callers
MaxSerialCalls == 4  \* operations invoked in one behaviour of serial callers
MaxAllCalls == 2     \* operations invoked in one behaviour of a caller that uses them all
MaxLiveCalls == 2    \* operations invoked in one behaviour of concurrent callers that use them all
MaxLow == 2          \* magnitude of the low part of the integers and of the floats drawn
MaxLen == 2          \* bytes of the strings and byte slices drawn

Procs == 1..NProcs
TxIds == 1..MaxTxs
StmtIds == 1..MaxStmts
Handles == 1..MaxStmts
RowIds == 1..MaxRows

\* The argument counts tried: every parameter count, and one more.
MaxArgs == MaxParams + 1

MaxBindParams == 2   \* parameters of the statement whose binding is examined
MaxBindCalls == 2    \* operations invoked in one behaviour of that examination

\* What the engine makes of a query text: nothing to prepare (a null statement
\* pointer with SQLITE_OK), or a statement with np parameters and nc columns;
\* the queries tried have no or all the parameters, and no or all the columns.
NoQuery == [kind |-> "none", np |-> 0, nc |-> 0]
Queries ==
    {[kind |-> "empty", np |-> 0, nc |-> 0]}
    \cup {[kind |-> "sql", np |-> a, nc |-> b] : a \in {0, MaxParams}, b \in {0, MaxCols}}

\* The database handle c.db, as the handle field of a logged native call.
DB == 0

\* Native result codes that the code distinguishes.
SQLITE_OK == 0
SQLITE_ERROR == 1
SQLITE_ROW == 100
SQLITE_DONE == 101

\* Column kinds.
SQLITE_INTEGER == 1
SQLITE_FLOAT == 2
SQLITE_TEXT == 3
SQLITE_BLOB == 4
SQLITE_NULL == 5

VARIABLES
    closed,     \* Conn.closed (atomic.Bool)
    tx,         \* Conn.tx: 0 is nil, else the Tx object
    stmts,      \* Conn.stmts: handle -> Stmt object, 0 where there is no entry
    mu,         \* Conn.mu: 0 is unlocked, else the process holding it
    txs,        \* the Tx objects: alloc, finished
    sts,        \* the Stmt objects: alloc, stmt (handle), closed; fin is history:
                \* the operation that finalized the handle, or "none"
    rws,        \* the Rows objects: alloc, stmt, own (the statement was prepared by the
                \* Conn.QueryContext that made the cursor), ncols (len(columns)), done, ctxDone
    dbOpen,     \* engine: the database handle has not been sqlite3_close'd
    inTx,       \* engine: a transaction is active (not in autocommit mode)
    live,       \* engine: the statement handles prepared and not finalized
    hinfo,      \* engine: parameter and column count of each statement handle
    proc,       \* per caller: pc, operation, locals, result, native calls issued
    serial,     \* 0 when callers are concurrent; above 0 one caller invokes that
                \* many operations, one at a time (as database/sql does); below
                \* 0 concurrent callers invoke that many between them
    calls,      \* operations invoked so far
    pure        \* a pure function applied to an argument: the call and its result

vars == <<closed, tx, stmts, mu, txs, sts, rws, dbOpen, inTx, live, hinfo, proc, serial, calls, pure>>

connVars == <<closed, tx, stmts, mu>>
heapVars == <<txs, sts, rws>>
engVars == <<dbOpen, inTx, live, hinfo>>

\* ------------------------------------------------------------ processes

\* A caller that has invoked nothing yet.
NoCall ==
    [pc |-> "idle", op |-> "none", obj |-> 0, pre |-> {}, rc |-> SQLITE_OK,
     q |-> NoQuery, h |-> 0, n |-> 0, i |-> 0, args |-> <<>>, todo |-> {}, defers |-> {},
     wrote |-> 0, res |-> "none", log |-> <<>>, inflight |-> FALSE,
     outer |-> "none", opre |-> {}, k |-> 0, ores |-> "none", reg |-> {},
     detail |-> <<>>]

\* Entry of operation op on object obj; pre records what held at entry.
Enter(op, obj, pre) == [NoCall EXCEPT !.op = op, !.obj = obj, !.pre = pre]

\* The operation returns res to its caller; its locals are gone.  When the
\* caller is Conn.ExecContext or Conn.QueryContext (outer), that operation
\* goes on with what it has kept: the argument count k and the result ores of
\* the execution it closes the statement after.  reg is history: the registry
\* as Conn.Close or Conn.ExecContext found it; args are the arguments of the
\* call, detail the position and type that its error names.
Return(r, res) ==
    IF r.outer = "none"
    THEN [NoCall EXCEPT !.op = r.op, !.obj = r.obj, !.pre = r.pre, !.wrote = r.wrote,
                        !.res = res, !.log = r.log, !.reg = r.reg, !.args = r.args,
                        !.detail = r.detail]
    ELSE [NoCall EXCEPT !.pc = "outer_ret", !.op = r.op, !.obj = r.obj, !.pre = r.pre,
                        !.wrote = r.wrote, !.res = res, !.log = r.log,
                        !.outer = r.outer, !.opre = r.opre, !.k = r.k, !.ores = r.ores,
                        !.reg = r.reg]

\* The operation goes on at pc without a native call in flight.
Goto(r, pc) == [r EXCEPT !.pc = pc, !.inflight = FALSE]

\* A native call fn on handle h with parameter index idx is issued; it will
\* return rc at pc.  held: the caller holds the connection's lock; stale: the
\* handle has been released (finalized or closed) before through the object
\* it is used by.
NativeAt(r, fn, h, idx, held, stale, rc, pc) ==
    [r EXCEPT !.pc = pc, !.rc = rc, !.inflight = TRUE,
              !.log = Append(@, [fn |-> fn, h |-> h, idx |-> idx, held |-> held,
                                 stale |-> stale, rc |-> rc])]

\* A native call that takes no parameter index.
Native(r, fn, h, held, stale, rc, pc) == NativeAt(r, fn, h, 0, held, stale, rc, pc)

\* What an idle caller keeps of its last operation (op, obj, pre, res, log) is
\* history for the properties; it is dropped at the next step of any caller.
Forget(r) == IF r.pc = "idle" THEN NoCall ELSE r

\* Caller p goes on as r.
Set(p, r) ==
    /\ proc' = [q \in Procs |-> IF q = p THEN r ELSE Forget(proc[q])]
    /\ pure' = pure

Idle(p) == proc[p].pc = "idle"
\* The caller of a serial behaviour.
FirstCaller == CHOOSE p \in Procs : \A q \in Procs : p <= q

\* Caller p may invoke an operation.
CanCall(p) ==
    /\ Idle(p)
    /\ serial' = serial
    /\ IF serial > 0 THEN calls < serial /\ p = FirstCaller
       ELSE IF serial < 0 THEN calls < 0 - serial
       ELSE calls < MaxCalls

\* ------------------------------------------------------------ engine

\* What the engine knows of a handle that is not a live statement.
NoInfo == [np |-> 0, nc |-> 0]

\* sqlite3_exec of BEGIN: fails inside a transaction, may fail otherwise.
BeginRcs == IF inTx /\ dbOpen THEN {SQLITE_ERROR} ELSE {SQLITE_OK, SQLITE_ERROR}
\* sqlite3_exec of COMMIT or ROLLBACK: fails when no transaction is active.
EndRcs == IF ~inTx /\ dbOpen THEN {SQLITE_ERROR} ELSE {SQLITE_OK, SQLITE_ERROR}
\* Any other native call that reports a result code.
AnyRcs == {SQLITE_OK, SQLITE_ERROR}

\* getErrorMessage(db), first call: sqlite3_errmsg(db), which returns a message
\* (rc 1) or a null pointer (rc 0).  The error is returned after it.
Fail(r, held) ==
    {Native([r EXCEPT !.res = "nativeErr"], "errmsg", DB, held, ~dbOpen, m, "err_msg") : m \in {0, 1}}

\* A return with the deferred calls of the operation still to run:
\* defer sqlite3_reset(s.stmt) of Stmt.ExecContext.
Leave(r, res) ==
    IF "reset" \in r.defers
    THEN [r EXCEPT !.pc = "deferred_reset", !.res = res, !.inflight = FALSE]
    ELSE Return(r, res)

\* The handle of Stmt s has been finalized, by Stmt.Close or by Conn.Close.
Finalized(s) == sts[s].fin # "none"

\* A closed flag that is never seen set.
ClosedLoadNever == FALSE

\* c.closed.Load().
ClosedLoad == closed

\* The transactions begun and neither committed nor rolled back.
OpenTxs == {t \in TxIds : txs[t].alloc /\ ~txs[t].finished}

\* The connection as openDB returns it.
Opened ==
    /\ closed = FALSE
    /\ tx = 0
    /\ stmts = [h \in Handles |-> 0]
    /\ mu = 0
    /\ txs = [t \in TxIds |-> [alloc |-> FALSE, finished |-> FALSE]]
    /\ sts = [s \in StmtIds |-> [alloc |-> FALSE, stmt |-> 0, closed |-> FALSE, fin |-> "none"]]
    /\ dbOpen = TRUE
    /\ inTx = FALSE
    /\ live = {}
    /\ hinfo = [h \in Handles |-> NoInfo]
    /\ rws = [r \in RowIds |-> [alloc |-> FALSE, stmt |-> 0, own |-> FALSE, ncols |-> 0,
                               done |-> FALSE, ctxDone |-> FALSE]]
    /\ proc = [p \in Procs |-> NoCall]
    /\ calls = 0

\* No pure function is being applied.
NoPure == [fn |-> "none", arg |-> <<>>, mid |-> <<>>, out |-> <<>>, pc |-> "done"]

Init == Opened /\ serial = 0 /\ pure = NoPure

InitSerial == Opened /\ serial = MaxSerialCalls /\ pure = NoPure

\* ------------------------------------------------------------ Tx

\* A transaction that is never seen finished.
FinishedNever(t) == FALSE

\* The read of t.finished that opens Tx.Commit and Tx.Rollback.
Finished(t) == txs[t].finished

\* Tx.Commit up to the Lock: the unlocked read of t.finished.
TxCommit(p, t) ==
    /\ CanCall(p) /\ txs[t].alloc
    /\ calls' = calls + 1
    /\ LET r == Enter("Commit", t, IF txs[t].finished THEN {"finished"} ELSE {}) IN
       Set(p,
                   IF Finished(t) THEN Return(r, "alreadyFinished")
                   ELSE Goto(r, "commit_lock"))
    /\ UNCHANGED <<connVars, engVars, heapVars>>

\* Tx.Commit: Lock, then sqlite3_exec of COMMIT.
TxCommitExec(p) ==
    /\ proc[p].pc = "commit_lock" /\ mu = 0
    /\ mu' = p
    /\ \E rc \in EndRcs :
         /\ Set(p, Native(proc[p], "exec", DB, TRUE, ~dbOpen, rc, "commit_ret"))
         /\ inTx' = IF rc = SQLITE_OK /\ dbOpen THEN FALSE ELSE inTx
    /\ UNCHANGED <<closed, tx, stmts, heapVars, dbOpen, live, hinfo, serial, calls>>

\* Tx.Commit after the native call: finish and clear the slot, Unlock.
TxCommitReturn(p) ==
    /\ proc[p].pc = "commit_ret"
    /\ IF proc[p].rc # SQLITE_OK
       THEN /\ \E r \in Fail(proc[p], TRUE) : Set(p, r)
            /\ UNCHANGED <<tx, txs, mu>>
       ELSE /\ txs' = [txs EXCEPT ![proc[p].obj].finished = TRUE]
            /\ tx' = 0
            /\ mu' = 0
            /\ Set(p, Return(proc[p], "ok"))
    /\ UNCHANGED <<closed, stmts, sts, rws, engVars, serial, calls>>

\* Tx.Rollback up to the Lock: the unlocked read of t.finished.
TxRollback(p, t) ==
    /\ CanCall(p) /\ txs[t].alloc
    /\ calls' = calls + 1
    /\ LET r == Enter("Rollback", t, IF txs[t].finished THEN {"finished"} ELSE {}) IN
       Set(p,
                   IF Finished(t) THEN Return(r, "ok")
                   ELSE Goto(r, "rollback_lock"))
    /\ UNCHANGED <<connVars, engVars, heapVars>>

\* Tx.Rollback: Lock, then sqlite3_exec of ROLLBACK.
TxRollbackExec(p) ==
    /\ proc[p].pc = "rollback_lock" /\ mu = 0
    /\ mu' = p
    /\ \E rc \in EndRcs :
         /\ Set(p, Native(proc[p], "exec", DB, TRUE, ~dbOpen, rc, "rollback_ret"))
         /\ inTx' = IF rc = SQLITE_OK /\ dbOpen THEN FALSE ELSE inTx
    /\ UNCHANGED <<closed, tx, stmts, heapVars, dbOpen, live, hinfo, serial, calls>>

\* Tx.Rollback after the native call: finish and clear the slot, Unlock.
TxRollbackReturn(p) ==
    /\ proc[p].pc = "rollback_ret"
    /\ IF proc[p].rc # SQLITE_OK
       THEN /\ \E r \in Fail(proc[p], TRUE) : Set(p, r)
            /\ UNCHANGED <<tx, txs, mu>>
       ELSE /\ txs' = [txs EXCEPT ![proc[p].obj].finished = TRUE]
            /\ tx' = 0
            /\ mu' = 0
            /\ Set(p, Return(proc[p], "ok"))
    /\ UNCHANGED <<closed, stmts, sts, rws, engVars, serial, calls>>

\* ------------------------------------------------------------ Conn.BeginTx

\* The Tx object a successful BeginTx creates.
NewTx == CHOOSE t \in TxIds : ~txs[t].alloc /\ \A u \in TxIds : u < t => txs[u].alloc

\* c.tx after lines 102-104: a finished transaction is dropped from the slot.
SlotAfterSweep == IF tx # 0 /\ txs[tx].finished THEN 0 ELSE tx

\* Conn.BeginTx up to the native call: the context check, Lock, the closed
\* check, the slot check, then sqlite3_exec of BEGIN.
BeginTx(p, cancelled) ==
    /\ CanCall(p)
    /\ calls' = calls + 1
    /\ LET r == Enter("BeginTx", 0,
                      (IF cancelled THEN {"cancelled"} ELSE {})
                      \cup (IF closed THEN {"closed"} ELSE {})
                      \cup (IF OpenTxs # {} THEN {"open"} ELSE {})) IN
       IF cancelled
       THEN /\ Set(p, Return(r, "ctxErr"))
            /\ UNCHANGED <<tx, mu, inTx>>
       ELSE /\ mu = 0
            /\ IF ClosedLoad
               THEN /\ Set(p, Return(r, "ErrBadConn"))
                    /\ UNCHANGED <<tx, mu, inTx>>
               ELSE /\ tx' = SlotAfterSweep
                    /\ IF SlotAfterSweep # 0
                       THEN /\ Set(p, Return(r, "txInProgress"))
                            /\ UNCHANGED <<mu, inTx>>
                       ELSE /\ \E t \in TxIds : ~txs[t].alloc
                            /\ mu' = p
                            /\ \E rc \in BeginRcs :
                                 /\ Set(p,
                                       Native(r, "exec", DB, TRUE, ~dbOpen, rc, "begin_ret"))
                                 /\ inTx' = IF rc = SQLITE_OK /\ dbOpen THEN TRUE ELSE inTx
    /\ UNCHANGED <<closed, stmts, heapVars, dbOpen, live, hinfo>>

\* Conn.BeginTx after the native call: the new Tx takes the slot, Unlock.
BeginTxReturn(p) ==
    /\ proc[p].pc = "begin_ret"
    /\ IF proc[p].rc # SQLITE_OK
       THEN /\ \E r \in Fail(proc[p], TRUE) : Set(p, r)
            /\ UNCHANGED <<tx, txs, mu>>
       ELSE /\ txs' = [txs EXCEPT ![NewTx].alloc = TRUE]
            /\ tx' = NewTx
            /\ mu' = 0
            /\ Set(p, Return([proc[p] EXCEPT !.obj = NewTx], "ok"))
    /\ UNCHANGED <<closed, stmts, sts, rws, engVars, serial, calls>>

\* ------------------------------------------------------------ Conn.PrepareContext

\* The Stmt object a successful prepare creates.
NewStmt == CHOOSE s \in StmtIds : ~sts[s].alloc /\ \A u \in StmtIds : u < s => sts[u].alloc

\* The callers inside PrepareContext.
Preparing == {p \in Procs : proc[p].op = "Prepare" /\ proc[p].pc # "idle"}

\* What held when a Conn operation was entered.
ConnPre(cancelled) ==
    (IF cancelled THEN {"cancelled"} ELSE {}) \cup (IF closed THEN {"closed"} ELSE {})

\* A PrepareContext that does not look at its context.
PrepareStartUnchecked(r, cancelled, query) ==
    IF ClosedLoad THEN Return(r, "ErrBadConn")
    ELSE Goto([r EXCEPT !.q = query], "prepare_lock")

\* Conn.PrepareContext up to the Lock: the context check and the lock-free
\* read of c.closed.
PrepareStart(r, cancelled, query) ==
    IF cancelled THEN Return(r, "ctxErr")
    ELSE IF ClosedLoad THEN Return(r, "ErrBadConn")
    ELSE Goto([r EXCEPT !.q = query], "prepare_lock")

\* There is room for one more Stmt object.
CanPrepare ==
    Cardinality({s \in StmtIds : sts[s].alloc}) + Cardinality(Preparing) < MaxStmts

\* A call of Conn.PrepareContext.
PrepareContext(p, cancelled, query) ==
    /\ CanCall(p)
    /\ CanPrepare
    /\ calls' = calls + 1
    /\ Set(p, PrepareStart(Enter("Prepare", 0, ConnPre(cancelled)), cancelled, query))
    /\ UNCHANGED <<connVars, heapVars, engVars>>

\* The handles sqlite3_prepare_v2 may return: the address of a finalized
\* statement again, or one never used (the lowest of each, handles being opaque).
NewHandles ==
    LET UsedHandles == {sts[s].stmt : s \in {u \in StmtIds : sts[u].alloc}}
        Lowest(S) == {h \in S : \A g \in S : h <= g}
    IN Lowest((Handles \ live) \cap UsedHandles) \cup Lowest(Handles \ UsedHandles)

\* Conn.PrepareContext: Lock, then sqlite3_prepare_v2(c.db, ...), which fails,
\* or yields no statement, or yields a handle that is not in use.
PrepareExec(p) ==
    /\ proc[p].pc = "prepare_lock" /\ mu = 0
    /\ mu' = p
    /\ \/ /\ Set(p,
                 Native([proc[p] EXCEPT !.h = 0], "prepare", DB, TRUE, ~dbOpen, SQLITE_ERROR, "prepare_ret"))
          /\ UNCHANGED <<live, hinfo>>
       \/ /\ proc[p].q.kind = "empty"
          /\ Set(p,
                 Native([proc[p] EXCEPT !.h = 0], "prepare", DB, TRUE, ~dbOpen, SQLITE_OK, "prepare_ret"))
          /\ UNCHANGED <<live, hinfo>>
       \/ /\ proc[p].q.kind = "sql"
          /\ \E h \in NewHandles :
               /\ Set(p,
                      Native([proc[p] EXCEPT !.h = h], "prepare", DB, TRUE, ~dbOpen, SQLITE_OK, "prepare_ret"))
               /\ live' = live \cup {h}
               /\ hinfo' = [hinfo EXCEPT ![h] = [np |-> proc[p].q.np, nc |-> proc[p].q.nc]]
    /\ UNCHANGED <<closed, tx, stmts, heapVars, dbOpen, inTx, serial, calls>>

\* PrepareContext returning its statement with the connection still locked.
PrepareReturnLocked(p) ==
    /\ proc[p].pc = "prepare_ret"
    /\ IF proc[p].rc # SQLITE_OK
       THEN /\ \E r \in Fail(proc[p], TRUE) : Set(p, r)
            /\ UNCHANGED <<mu, stmts, sts>>
       ELSE IF proc[p].h = 0
       THEN /\ Set(p, Return(proc[p], "emptyStmt"))
            /\ mu' = 0
            /\ UNCHANGED <<stmts, sts>>
       ELSE /\ sts' = [sts EXCEPT ![NewStmt] =
                         [alloc |-> TRUE, stmt |-> proc[p].h, closed |-> FALSE, fin |-> "none"]]
            /\ stmts' = [stmts EXCEPT ![proc[p].h] = NewStmt]
            /\ mu' = mu
            /\ Set(p, Return([proc[p] EXCEPT !.obj = NewStmt], "ok"))
    /\ UNCHANGED <<closed, tx, txs, rws, engVars, serial, calls>>

\* Conn.PrepareContext after the native call: the Stmt is created and stored
\* in the registry under its handle, Unlock.
PrepareReturn(p) ==
    /\ proc[p].pc = "prepare_ret"
    /\ IF proc[p].rc # SQLITE_OK
       THEN /\ \E r \in Fail(proc[p], TRUE) : Set(p, r)
            /\ UNCHANGED <<mu, stmts, sts>>
       ELSE IF proc[p].h = 0
       THEN /\ Set(p, Return(proc[p], "emptyStmt"))
            /\ mu' = 0
            /\ UNCHANGED <<stmts, sts>>
       ELSE /\ sts' = [sts EXCEPT ![NewStmt] =
                         [alloc |-> TRUE, stmt |-> proc[p].h, closed |-> FALSE, fin |-> "none"]]
            /\ stmts' = [stmts EXCEPT ![proc[p].h] = NewStmt]
            /\ mu' = 0
            /\ Set(p, Return([proc[p] EXCEPT !.obj = NewStmt], "ok"))
    /\ UNCHANGED <<closed, tx, txs, rws, engVars, serial, calls>>

\* ------------------------------------------------------------ Conn.execDirect

\* Conn.ExecContext without arguments: the context check, then execDirect up
\* to the native call: Lock, the closed check, sqlite3_exec(c.db, query).
ExecDirect(p, cancelled) ==
    /\ CanCall(p)
    /\ calls' = calls + 1
    /\ LET r == Enter("ExecDirect", 0,
                      (IF cancelled THEN {"cancelled"} ELSE {})
                      \cup (IF closed THEN {"closed"} ELSE {})) IN
       IF cancelled
       THEN /\ Set(p, Return(r, "ctxErr"))
            /\ UNCHANGED mu
       ELSE /\ mu = 0
            /\ IF ClosedLoad
               THEN /\ Set(p, Return(r, "ErrBadConn"))
                    /\ UNCHANGED mu
               ELSE /\ mu' = p
                    /\ \E rc \in AnyRcs :
                         Set(p,
                             Native(r, "exec", DB, TRUE, ~dbOpen, rc, "direct_ret"))
    /\ UNCHANGED <<closed, tx, stmts, heapVars, engVars>>

\* execDirect after sqlite3_exec: sqlite3_last_insert_rowid(c.db).
ExecDirectRowid(p) ==
    /\ proc[p].pc = "direct_ret"
    /\ IF proc[p].rc # SQLITE_OK
       THEN \E r \in Fail(proc[p], TRUE) : Set(p, r)
       ELSE Set(p,
                Native(proc[p], "last_insert_rowid", DB, TRUE, ~dbOpen, SQLITE_OK, "direct_rowid"))
    /\ UNCHANGED <<connVars, heapVars, engVars, serial, calls>>

\* execDirect: sqlite3_changes(c.db).
ExecDirectChanges(p) ==
    /\ proc[p].pc = "direct_rowid"
    /\ Set(p,
          Native(proc[p], "changes", DB, TRUE, ~dbOpen, SQLITE_OK, "direct_changes"))
    /\ UNCHANGED <<connVars, heapVars, engVars, serial, calls>>

\* execDirect returns the Result, Unlock.
ExecDirectReturn(p) ==
    /\ proc[p].pc = "direct_changes"
    /\ Set(p, Return(proc[p], "ok"))
    /\ mu' = 0
    /\ UNCHANGED <<closed, tx, stmts, heapVars, engVars, serial, calls>>

\* ------------------------------------------------------------ Conn.Close

\* The statements in the registry c.stmts.
Registered == {stmts[h] : h \in Handles} \ {0}

\* A Close that tears down whatever the closed flag says.
ConnCloseUnchecked(p) ==
    /\ CanCall(p) /\ mu = 0
    /\ calls' = calls + 1
    /\ Set(p, Goto([Enter("Close", 0, IF closed THEN {"closed"} ELSE {}) EXCEPT !.todo = Registered,
                                                                           !.reg = Registered],
                   "close_loop"))
    /\ mu' = p
    /\ UNCHANGED <<closed, tx, stmts, heapVars, engVars>>

\* Conn.Close: Lock and the closed check; an open connection starts the
\* range over the registry.
ConnClose(p) ==
    /\ CanCall(p) /\ mu = 0
    /\ calls' = calls + 1
    /\ LET r == Enter("Close", 0, IF closed THEN {"closed"} ELSE {}) IN
       IF ClosedLoad
       THEN /\ Set(p, Return(r, "ok"))
            /\ UNCHANGED mu
       ELSE /\ Set(p, Goto([r EXCEPT !.todo = Registered, !.reg = Registered], "close_loop"))
            /\ mu' = p
    /\ UNCHANGED <<closed, tx, stmts, heapVars, engVars>>

\* Conn.Close, one iteration of the range over c.stmts (sync.Map.Range, which
\* may or may not visit an entry deleted since the range began):
\* sqlite3_finalize(stmt.stmt); the result is dropped.
ConnCloseFinalize(p) ==
    /\ proc[p].pc = "close_loop"
    /\ \E s \in proc[p].todo :
         /\ \E rc \in AnyRcs :
              Set(p,
                  Native([proc[p] EXCEPT !.todo = proc[p].todo \ {s}], "finalize", sts[s].stmt,
                         TRUE, Finalized(s), rc, "close_loop"))
         /\ live' = live \ {sts[s].stmt}
         /\ hinfo' = [hinfo EXCEPT ![sts[s].stmt] = NoInfo]
         /\ sts' = [sts EXCEPT ![s].fin = IF Finalized(s) THEN @ ELSE "Conn.Close"]
    /\ UNCHANGED <<connVars, txs, rws, dbOpen, inTx, serial, calls>>

\* Conn.Close after the range: c.stmts.Clear(), then sqlite3_close(c.db).
ConnCloseNative(p) ==
    /\ proc[p].pc = "close_loop"
    /\ proc[p].todo \cap Registered = {}
    /\ stmts' = [h \in Handles |-> 0]
    /\ \E rc \in AnyRcs :
         /\ Set(p, Native(proc[p], "close", DB, TRUE, ~dbOpen, rc, "close_ret"))
         /\ dbOpen' = IF rc = SQLITE_OK THEN FALSE ELSE dbOpen
         /\ inTx' = IF rc = SQLITE_OK THEN FALSE ELSE inTx
    /\ UNCHANGED <<closed, tx, mu, heapVars, live, hinfo, serial, calls>>

\* A Close that marks the connection closed whatever sqlite3_close returned.
ConnCloseReturnAlways(p) ==
    /\ proc[p].pc = "close_ret"
    /\ mu' = 0
    /\ closed' = TRUE
    /\ Set(p, Return(proc[p], IF proc[p].rc # SQLITE_OK THEN "nativeErr" ELSE "ok"))
    /\ UNCHANGED <<tx, stmts, heapVars, engVars, serial, calls>>

\* Conn.Close after sqlite3_close: the closed flag is set on success, Unlock.
ConnCloseReturn(p) ==
    /\ proc[p].pc = "close_ret"
    /\ mu' = 0
    /\ IF proc[p].rc # SQLITE_OK
       THEN /\ Set(p, Return(proc[p], "nativeErr"))
            /\ UNCHANGED closed
       ELSE /\ closed' = TRUE
            /\ Set(p, Return(proc[p], "ok"))
    /\ UNCHANGED <<tx, stmts, heapVars, engVars, serial, calls>>

\* ------------------------------------------------------------ Conn.Ping, Conn.ResetSession

\* Conn.Ping: the context check and the lock-free read of c.closed.
Ping(p, cancelled) ==
    /\ CanCall(p)
    /\ calls' = calls + 1
    /\ LET r == Enter("Ping", 0,
                      (IF cancelled THEN {"cancelled"} ELSE {})
                      \cup (IF closed THEN {"closed"} ELSE {})) IN
       Set(p, IF cancelled THEN Return(r, "ctxErr")
              ELSE IF ClosedLoad THEN Return(r, "ErrBadConn")
              ELSE Return(r, "ok"))
    /\ UNCHANGED <<connVars, heapVars, engVars>>

\* Conn.ResetSession up to the range over the registry: the context check,
\* Lock, the closed check, the check of the transaction slot.
ResetSession(p, cancelled) ==
    /\ CanCall(p)
    /\ calls' = calls + 1
    /\ LET r == Enter("ResetSession", 0,
                      (IF cancelled THEN {"cancelled"} ELSE {})
                      \cup (IF closed THEN {"closed"} ELSE {})
                      \cup (IF OpenTxs # {} THEN {"open"} ELSE {})) IN
       IF cancelled
       THEN /\ Set(p, Return(r, "ctxErr"))
            /\ UNCHANGED mu
       ELSE /\ mu = 0
            /\ IF ClosedLoad
               THEN /\ Set(p, Return(r, "ErrBadConn"))
                    /\ UNCHANGED mu
               ELSE IF tx # 0
               THEN /\ Set(p, Return(r, "txActive"))
                    /\ UNCHANGED mu
               ELSE /\ Set(p, Goto([r EXCEPT !.todo = Registered], "reset_loop"))
                    /\ mu' = p
    /\ UNCHANGED <<closed, tx, stmts, heapVars, engVars>>

\* Conn.ResetSession, one iteration of the range over c.stmts:
\* sqlite3_reset(stmt.stmt); the result is dropped.
ResetSessionReset(p) ==
    /\ proc[p].pc = "reset_loop"
    /\ \E s \in proc[p].todo :
         Set(p, Native([proc[p] EXCEPT !.todo = proc[p].todo \ {s}], "reset", sts[s].stmt,
                       TRUE, Finalized(s), SQLITE_OK, "reset_loop"))
    /\ UNCHANGED <<connVars, heapVars, engVars, serial, calls>>

\* Conn.ResetSession after the range: it returns nil, Unlock.
ResetSessionReturn(p) ==
    /\ proc[p].pc = "reset_loop"
    /\ proc[p].todo \cap Registered = {}
    /\ Set(p, Return(proc[p], "ok"))
    /\ mu' = 0
    /\ UNCHANGED <<closed, tx, stmts, heapVars, engVars, serial, calls>>

\* ------------------------------------------------------------ Stmt

\* sqlite3_bind_parameter_count / sqlite3_column_count of a handle: what was
\* prepared, or anything after the handle has been finalized.
ParamCounts(h) == IF h \in live THEN {hinfo[h].np} ELSE 0..MaxParams
ColCounts(h) == IF h \in live THEN {hinfo[h].nc} ELSE 0..MaxCols

\* What holds of Stmt s when an operation on it is entered.
StmtPre(s, cancelled) ==
    (IF cancelled THEN {"cancelled"} ELSE {})
    \cup (IF sts[s].closed THEN {"closed"} ELSE {})
    \cup (IF Finalized(s) THEN {"finalized"} ELSE {})
    \cup (IF sts[s].fin = "Conn.Close" THEN {"connFinalized"} ELSE {})

\* Stmt.Close up to the native call: the closed check, the registry entry of
\* the handle is deleted, sqlite3_finalize(s.stmt).
StmtCloseStart(p, r, s) ==
    /\ IF sts[s].closed
       THEN /\ Set(p, Return(r, "ok"))
            /\ UNCHANGED <<stmts, sts, live, hinfo>>
       ELSE /\ stmts' = [stmts EXCEPT ![sts[s].stmt] = 0]
            /\ \E rc \in AnyRcs :
                 Set(p, Native(r, "finalize", sts[s].stmt, FALSE, Finalized(s), rc, "stmtclose_ret"))
            /\ live' = live \ {sts[s].stmt}
            /\ hinfo' = [hinfo EXCEPT ![sts[s].stmt] = NoInfo]
            /\ sts' = [sts EXCEPT ![s].fin = IF Finalized(s) THEN @ ELSE "Stmt.Close"]
    /\ UNCHANGED <<closed, tx, mu, txs, rws, dbOpen, inTx>>

\* A call of Stmt.Close.
StmtClose(p, s) ==
    /\ CanCall(p) /\ sts[s].alloc
    /\ calls' = calls + 1
    /\ StmtCloseStart(p, Enter("StmtClose", s, StmtPre(s, FALSE)), s)

\* Stmt.Close after sqlite3_finalize: closed is set when it succeeded.
StmtCloseReturn(p) ==
    /\ proc[p].pc = "stmtclose_ret"
    /\ IF proc[p].rc # SQLITE_OK
       THEN /\ Set(p, Return(proc[p], "finalizeErr"))
            /\ UNCHANGED sts
       ELSE /\ sts' = [sts EXCEPT ![proc[p].obj].closed = TRUE]
            /\ Set(p, Return(proc[p], "ok"))
    /\ UNCHANGED <<connVars, txs, rws, engVars, serial, calls>>

\* Stmt.NumInput: sqlite3_bind_parameter_count(s.stmt).
StmtNumInput(p, s) ==
    /\ CanCall(p) /\ sts[s].alloc
    /\ calls' = calls + 1
    /\ \E n \in ParamCounts(sts[s].stmt) :
         Set(p, Native([Enter("NumInput", s, StmtPre(s, FALSE)) EXCEPT !.n = n],
                       "bind_parameter_count", sts[s].stmt, FALSE, Finalized(s),
                       SQLITE_OK, "numinput_ret"))
    /\ UNCHANGED <<connVars, heapVars, engVars>>

\* Stmt.NumInput returns the count.
StmtNumInputReturn(p) ==
    /\ proc[p].pc = "numinput_ret"
    /\ Set(p, Return(proc[p], "ok"))
    /\ UNCHANGED <<connVars, heapVars, engVars, serial, calls>>

\* The arguments database/sql passes: ordinals 1..k, values of a bindable type.
Args(k) == [i \in 1..k |-> [ord |-> i, val |-> "int"]]

\* Stmt.ExecContext / Stmt.QueryContext up to the first native call: the context
\* check, the closed check, then bind's s.NumInput().  n is the parameter count
\* the engine reports for the handle.
StmtStart(r, s, cancelled, args, n) ==
    IF cancelled THEN Return(r, "ctxErr")
    ELSE IF sts[s].closed THEN Return(r, "stmtClosed")
    ELSE Native([r EXCEPT !.n = n, !.args = args],
                "bind_parameter_count", sts[s].stmt, FALSE, Finalized(s),
                SQLITE_OK, "bind_count")

\* What held when ExecContext or QueryContext of s was entered with k
\* arguments, the statement having n parameters.
BindPre(s, cancelled, k, n) ==
    StmtPre(s, cancelled) \cup (IF k # n THEN {"mismatch"} ELSE {})

\* A call of Stmt.ExecContext or Stmt.QueryContext.
StmtEnter(p, op, s, cancelled, args) ==
    /\ CanCall(p) /\ sts[s].alloc
    /\ calls' = calls + 1
    /\ \E n \in ParamCounts(sts[s].stmt) :
         Set(p, StmtStart(Enter(op, s, BindPre(s, cancelled, Len(args), n)), s, cancelled, args, n))
    /\ UNCHANGED <<connVars, heapVars, engVars>>

StmtExecContext(p, s, cancelled, args) == StmtEnter(p, "StmtExec", s, cancelled, args)

\* The Rows objects created and about to be.
Querying ==
    {p \in Procs : (proc[p].op = "StmtQuery" \/ proc[p].outer = "ConnQuery")
                       /\ proc[p].pc # "idle"}

\* There is room for one more Rows object.
CanQuery == Cardinality({r \in RowIds : rws[r].alloc}) + Cardinality(Querying) < MaxRows

StmtQueryContext(p, s, cancelled, args) ==
    /\ CanQuery
    /\ StmtEnter(p, "StmtQuery", s, cancelled, args)

\* A count check that rejects too few arguments only.
CountMismatchTooFew(r) == Len(r.args) < r.n

\* len(args) != expectedArgs
CountMismatch(r) == Len(r.args) # r.n

\* Stmt.bind after NumInput: the argument count must equal the parameter count.
BindCheck(p) ==
    /\ proc[p].pc = "bind_count"
    /\ IF CountMismatch(proc[p])
       THEN Set(p, Return(proc[p], "countMismatch"))
       ELSE Set(p, Goto([proc[p] EXCEPT !.i = 1], "bind_loop"))
    /\ UNCHANGED <<connVars, heapVars, engVars, serial, calls>>

\* The values an argument may hold: a bindable value, nil, a value of a type
\* bindValue does not know, and driver.Valuers whose Value() returns a
\* bindable value or an error.
BindVals == {"int", "null", "unsupported", "valuerInt", "valuerErr"}

\* An argument that is never skipped.
SkippedNever(a) == FALSE

\* Stmt.bind: an argument with a non-positive ordinal is skipped.
Skipped(a) == a.ord <= 0

\* A bind that hands the argument to bindValue as it is.
ResolveNever(v) == v

\* Stmt.bind: a driver.Valuer is replaced by what its Value() returns;
\* "valuerErr" stands for the error it returns instead.
Resolve(v) == IF v = "valuerInt" THEN "int" ELSE v

\* Stmt.bind, one argument: a non-positive ordinal is skipped, a Valuer is asked
\* for its value, bindValue issues the native bind or rejects the type.
BindValue(p) ==
    /\ proc[p].pc = "bind_loop"
    /\ proc[p].i <= Len(proc[p].args)
    /\ LET a == proc[p].args[proc[p].i]
           v == Resolve(a.val)
           s == proc[p].obj IN
       IF Skipped(a) THEN Set(p, Goto([proc[p] EXCEPT !.i = proc[p].i + 1], "bind_loop"))
       ELSE IF v = "valuerErr"
       THEN Set(p, Return([proc[p] EXCEPT !.detail = <<a.ord, "valuer error">>], "valuerErr"))
       ELSE IF v \notin {"int", "null"}
       THEN Set(p, Return([proc[p] EXCEPT !.detail = <<a.ord, v>>], "unsupportedType"))
       ELSE \E rc \in AnyRcs :
              Set(p, NativeAt(proc[p], "bind", sts[s].stmt, a.ord, FALSE, Finalized(s), rc,
                              "bind_ret"))
    /\ UNCHANGED <<connVars, heapVars, engVars, serial, calls>>

\* Stmt.bind going on to the next argument whatever sqlite3_bind_* returned.
BindReturnIgnored(p) ==
    /\ proc[p].pc = "bind_ret"
    /\ Set(p, Goto([proc[p] EXCEPT !.i = proc[p].i + 1], "bind_loop"))
    /\ UNCHANGED <<connVars, heapVars, engVars, serial, calls>>

\* bindValue after the native bind: a failure of sqlite3_bind_null is returned
\* as it is, any other with getErrorMessage(s.conn.db).
BindReturn(p) ==
    /\ proc[p].pc = "bind_ret"
    /\ IF proc[p].rc = SQLITE_OK
       THEN Set(p, Goto([proc[p] EXCEPT !.i = proc[p].i + 1], "bind_loop"))
       ELSE IF Resolve(proc[p].args[proc[p].i].val) = "null"
       THEN Set(p, Return(proc[p], "nativeErr"))
       ELSE \E r \in Fail(proc[p], FALSE) : Set(p, r)
    /\ UNCHANGED <<connVars, heapVars, engVars, serial, calls>>

\* Stmt.ExecContext after bind: sqlite3_step(s.stmt), and the reset is deferred.
StmtExecStep(p) ==
    /\ proc[p].pc = "bind_loop" /\ proc[p].op = "StmtExec"
    /\ proc[p].i > Len(proc[p].args)
    /\ LET s == proc[p].obj IN
       \E rc \in {SQLITE_DONE, SQLITE_ROW, SQLITE_ERROR} :
         Set(p, Native([proc[p] EXCEPT !.defers = {"reset"}], "step", sts[s].stmt,
                       FALSE, Finalized(s), rc, "exec_step_ret"))
    /\ UNCHANGED <<connVars, heapVars, engVars, serial, calls>>

\* Stmt.ExecContext after the step: the error, or sqlite3_last_insert_rowid.
StmtExecRowid(p) ==
    /\ proc[p].pc = "exec_step_ret"
    /\ IF proc[p].rc # SQLITE_DONE /\ proc[p].rc # SQLITE_ROW
       THEN \E r \in Fail(proc[p], FALSE) : Set(p, r)
       ELSE Set(p, Native(proc[p], "last_insert_rowid", DB, FALSE, ~dbOpen, SQLITE_OK, "exec_rowid"))
    /\ UNCHANGED <<connVars, heapVars, engVars, serial, calls>>

\* Stmt.ExecContext: sqlite3_changes(s.conn.db).
StmtExecChanges(p) ==
    /\ proc[p].pc = "exec_rowid"
    /\ Set(p, Native(proc[p], "changes", DB, FALSE, ~dbOpen, SQLITE_OK, "exec_changes"))
    /\ UNCHANGED <<connVars, heapVars, engVars, serial, calls>>

\* Stmt.ExecContext returns the Result; the deferred reset is still to run.
StmtExecResult(p) ==
    /\ proc[p].pc = "exec_changes"
    /\ Set(p, Leave(proc[p], "ok"))
    /\ UNCHANGED <<connVars, heapVars, engVars, serial, calls>>

\* A return of Stmt.ExecContext that leaves the statement as the step left it.
DeferredSkip(p) ==
    /\ proc[p].pc = "deferred_reset"
    /\ Set(p, Goto(proc[p], "deferred_done"))
    /\ UNCHANGED <<connVars, heapVars, engVars, serial, calls>>

\* The deferred sqlite3_reset(s.stmt) of Stmt.ExecContext.
DeferredReset(p) ==
    /\ proc[p].pc = "deferred_reset"
    /\ LET s == proc[p].obj IN
       Set(p, Native(proc[p], "reset", sts[s].stmt, FALSE, Finalized(s), SQLITE_OK, "deferred_done"))
    /\ UNCHANGED <<connVars, heapVars, engVars, serial, calls>>

\* Stmt.ExecContext has returned.
DeferredDone(p) ==
    /\ proc[p].pc = "deferred_done"
    /\ Set(p, Return(proc[p], proc[p].res))
    /\ UNCHANGED <<connVars, heapVars, engVars, serial, calls>>

\* Stmt.QueryContext after bind: sqlite3_column_count(s.stmt).
StmtQueryColumns(p) ==
    /\ proc[p].pc = "bind_loop" /\ proc[p].op = "StmtQuery"
    /\ proc[p].i > Len(proc[p].args)
    /\ LET s == proc[p].obj IN
       \E n \in ColCounts(sts[s].stmt) :
         Set(p, Native([proc[p] EXCEPT !.n = n, !.i = 0], "column_count", sts[s].stmt,
                       FALSE, Finalized(s), SQLITE_OK, "query_cols"))
    /\ UNCHANGED <<connVars, heapVars, engVars, serial, calls>>

\* Stmt.QueryContext, one column: sqlite3_column_name(s.stmt, i).
StmtQueryName(p) ==
    /\ proc[p].pc = "query_cols"
    /\ proc[p].i < proc[p].n
    /\ LET s == proc[p].obj IN
       Set(p, Native([proc[p] EXCEPT !.i = proc[p].i + 1], "column_name", sts[s].stmt,
                     FALSE, Finalized(s), SQLITE_OK, "query_cols"))
    /\ UNCHANGED <<connVars, heapVars, engVars, serial, calls>>

\* The Rows object a successful query creates.
NewRows == CHOOSE r \in RowIds : ~rws[r].alloc /\ \A u \in RowIds : u < r => rws[u].alloc

\* Stmt.QueryContext returns the Rows over the statement.
StmtQueryReturn(p) ==
    /\ proc[p].pc = "query_cols"
    /\ proc[p].i >= proc[p].n
    /\ rws' = [rws EXCEPT ![NewRows] =
                 [alloc |-> TRUE, stmt |-> proc[p].obj, own |-> proc[p].outer = "ConnQuery",
                  ncols |-> proc[p].n, done |-> FALSE, ctxDone |-> FALSE]]
    /\ Set(p, Return([proc[p] EXCEPT !.obj = NewRows], "ok"))
    /\ UNCHANGED <<connVars, txs, sts, engVars, serial, calls>>

\* ------------------------------------------------------------ Conn.ExecContext, Conn.QueryContext

\* The operation outer returns res to its caller.
Finish(r, res) ==
    [NoCall EXCEPT !.op = r.outer, !.obj = r.obj, !.pre = r.opre, !.wrote = r.wrote,
                   !.res = res, !.log = r.log, !.reg = r.reg, !.k = r.k]

\* An operation that outer calls: it goes on with what outer has kept and
\* adds its native calls to those of outer.
Inner(r, op, obj, pre) ==
    [Enter(op, obj, pre) EXCEPT !.outer = r.outer, !.opre = r.opre, !.k = r.k,
                                !.ores = r.ores, !.log = r.log, !.reg = r.reg]

\* Conn.ExecContext with k > 0 arguments and Conn.QueryContext: the context
\* check, then c.PrepareContext(ctx, query), which checks the context again
\* (cancelled2: it is cancelled by then).
ConnCall(p, op, cancelled, query, k) ==
    /\ CanCall(p)
    /\ CanPrepare
    /\ calls' = calls + 1
    /\ LET r == [Enter(op, 0, ConnPre(cancelled)) EXCEPT !.outer = op, !.opre = ConnPre(cancelled),
                                                          !.k = k, !.reg = Registered] IN
       IF cancelled
       THEN Set(p, Finish(r, "ctxErr"))
       ELSE \E cancelled2 \in BOOLEAN :
              Set(p, PrepareStart(Inner(r, "Prepare", 0, ConnPre(cancelled2)), cancelled2, query))
    /\ UNCHANGED <<connVars, heapVars, engVars>>

ConnExecContext(p, cancelled, query, k) ==
    /\ k > 0
    /\ ConnCall(p, "ConnExec", cancelled, query, k)

ConnQueryContext(p, cancelled, query, k) ==
    /\ CanQuery
    /\ ConnCall(p, "ConnQuery", cancelled, query, k)

\* After PrepareContext: its error is returned, or the statement is executed
\* (stmt.ExecContext) or queried (stmt.QueryContext) with the same context.
ConnAfterPrepare(p) ==
    /\ proc[p].pc = "outer_ret" /\ proc[p].op = "Prepare"
    /\ IF proc[p].res # "ok"
       THEN Set(p, Finish(proc[p], proc[p].res))
       ELSE LET s == proc[p].obj
                op == IF proc[p].outer = "ConnExec" THEN "StmtExec" ELSE "StmtQuery" IN
            \E cancelled \in BOOLEAN, n \in ParamCounts(sts[s].stmt) :
              Set(p, StmtStart(Inner(proc[p], op, s, BindPre(s, cancelled, proc[p].k, n)),
                               s, cancelled, Args(proc[p].k), n))
    /\ UNCHANGED <<connVars, heapVars, engVars, serial, calls>>

\* A Conn.ExecContext that closes the statement only after a successful
\* execution.
ConnAfterStmtLeak(p) ==
    /\ proc[p].pc = "outer_ret" /\ proc[p].op \in {"StmtExec", "StmtQuery"}
    /\ IF proc[p].res # "ok" \/ proc[p].op = "StmtQuery"
       THEN /\ Set(p, Finish(proc[p], proc[p].res))
            /\ UNCHANGED <<connVars, heapVars, engVars>>
       ELSE LET s == proc[p].obj IN
            StmtCloseStart(p, Inner([proc[p] EXCEPT !.ores = proc[p].res], "StmtClose", s,
                                    StmtPre(s, FALSE)), s)
    /\ UNCHANGED <<serial, calls>>

\* After the statement: QueryContext returns the Rows of a successful query;
\* after a failed query, and after ExecContext whatever its result (defer),
\* stmt.Close() is called.
ConnAfterStmt(p) ==
    /\ proc[p].pc = "outer_ret" /\ proc[p].op \in {"StmtExec", "StmtQuery"}
    /\ IF proc[p].op = "StmtQuery" /\ proc[p].res = "ok"
       THEN /\ Set(p, Finish(proc[p], "ok"))
            /\ UNCHANGED <<connVars, heapVars, engVars>>
       ELSE LET s == proc[p].obj IN
            StmtCloseStart(p, Inner([proc[p] EXCEPT !.ores = proc[p].res], "StmtClose", s,
                                    StmtPre(s, FALSE)), s)
    /\ UNCHANGED <<serial, calls>>

\* After stmt.Close(), whose error is dropped: the result of the statement is
\* returned.
ConnAfterClose(p) ==
    /\ proc[p].pc = "outer_ret" /\ proc[p].op = "StmtClose"
    /\ Set(p, Finish(proc[p], proc[p].ores))
    /\ UNCHANGED <<connVars, heapVars, engVars, serial, calls>>

\* ------------------------------------------------------------ Rows

\* The column kinds sqlite3_column_type reports (rows.go names the float kind
\* SQLITE_REAL).
ColKinds == {SQLITE_INTEGER, SQLITE_FLOAT, SQLITE_TEXT, SQLITE_BLOB, SQLITE_NULL}

\* What holds of Rows r when an operation on it is entered.
RowsPre(r, cancelled) ==
    (IF cancelled THEN {"cancelled"} ELSE {})
    \cup (IF rws[r].done THEN {"done"} ELSE {})
    \cup (IF sts[rws[r].stmt].closed THEN {"closed"} ELSE {})
    \cup (IF Finalized(rws[r].stmt) THEN {"finalized"} ELSE {})
    \cup (IF sts[rws[r].stmt].fin = "Conn.Close" THEN {"connFinalized"} ELSE {})

\* The native statement handle r.stmt.stmt.
RowsHandle(r) == sts[rws[r].stmt].stmt

\* A cursor that is never seen done.
RowsDoneNever(r) == FALSE

\* r.done
RowsDone(r) == rws[r].done

\* Rows.Close up to the native call: sqlite3_reset(r.stmt.stmt) unless done.
RowsClose(p, r) ==
    /\ CanCall(p) /\ rws[r].alloc
    /\ calls' = calls + 1
    /\ LET e == Enter("RowsClose", r, RowsPre(r, FALSE)) IN
       IF RowsDone(r)
       THEN Set(p, Return(e, "ok"))
       ELSE Set(p, Native(e, "reset", RowsHandle(r), FALSE, Finalized(rws[r].stmt),
                          SQLITE_OK, "rowsclose_ret"))
    /\ UNCHANGED <<connVars, heapVars, engVars>>

\* Rows.Close after the reset: the cursor is done.
RowsCloseReturn(p) ==
    /\ proc[p].pc = "rowsclose_ret"
    /\ rws' = [rws EXCEPT ![proc[p].obj].done = TRUE]
    /\ Set(p, Return(proc[p], "ok"))
    /\ UNCHANGED <<connVars, txs, sts, engVars, serial, calls>>

\* Rows.Next up to the native call: the check of r.ctx (cancel: the context of
\* the query is cancelled by now), the done check, sqlite3_step(r.stmt.stmt).
\* ndest is len(dest); "mismatch" records that it is not len(r.columns).
RowsNext(p, r, cancel, ndest) ==
    /\ CanCall(p) /\ rws[r].alloc
    /\ calls' = calls + 1
    /\ LET cancelled == rws[r].ctxDone \/ cancel
           e == [Enter("RowsNext", r,
                       RowsPre(r, cancelled)
                       \cup (IF ndest # rws[r].ncols THEN {"mismatch"} ELSE {}))
                   EXCEPT !.n = ndest] IN
       /\ rws' = [rws EXCEPT ![r].ctxDone = cancelled]
       /\ IF cancelled THEN Set(p, Return(e, "ctxErr"))
          ELSE IF RowsDone(r) THEN Set(p, Return(e, "EOF"))
          ELSE \E rc \in {SQLITE_ROW, SQLITE_DONE, SQLITE_ERROR} :
                 Set(p, Native(e, "step", RowsHandle(r), FALSE, Finalized(rws[r].stmt),
                               rc, "next_step_ret"))
    /\ UNCHANGED <<connVars, txs, sts, engVars>>

\* A Next that decodes the row into whatever slots it is given.
RowsNextRowUnchecked(p) ==
    /\ proc[p].pc = "next_step_ret"
    /\ LET r == proc[p].obj IN
       IF proc[p].rc = SQLITE_DONE
       THEN /\ rws' = [rws EXCEPT ![r].done = TRUE]
            /\ Set(p, Return(proc[p], "EOF"))
       ELSE /\ UNCHANGED rws
            /\ IF proc[p].rc # SQLITE_ROW
               THEN \E f \in Fail(proc[p], FALSE) : Set(p, f)
               ELSE Set(p, Goto([proc[p] EXCEPT !.i = 0], "next_cols"))
    /\ UNCHANGED <<connVars, txs, sts, engVars, serial, calls>>

\* Rows.Next after the step: done, an error, or a row whose column count must
\* equal len(dest).
RowsNextRow(p) ==
    /\ proc[p].pc = "next_step_ret"
    /\ LET r == proc[p].obj IN
       IF proc[p].rc = SQLITE_DONE
       THEN /\ rws' = [rws EXCEPT ![r].done = TRUE]
            /\ Set(p, Return(proc[p], "EOF"))
       ELSE /\ UNCHANGED rws
            /\ IF proc[p].rc # SQLITE_ROW
               THEN \E f \in Fail(proc[p], FALSE) : Set(p, f)
               ELSE IF proc[p].n # rws[r].ncols
               THEN Set(p, Return(proc[p], "destMismatch"))
               ELSE Set(p, Goto([proc[p] EXCEPT !.i = 0], "next_cols"))
    /\ UNCHANGED <<connVars, txs, sts, engVars, serial, calls>>

\* Rows.Next, one column: sqlite3_column_type(r.stmt.stmt, i).
RowsColumnType(p) ==
    /\ proc[p].pc = "next_cols"
    /\ proc[p].i < proc[p].n
    /\ LET r == proc[p].obj IN
       \E k \in ColKinds :
         Set(p, Native(proc[p], "column_type", RowsHandle(r), FALSE, Finalized(rws[r].stmt),
                       k, "next_scan"))
    /\ UNCHANGED <<connVars, heapVars, engVars, serial, calls>>

\* Rows.scanColumn: the native read that the column kind selects; a null
\* column is stored without one.
RowsScanColumn(p) ==
    /\ proc[p].pc = "next_scan"
    /\ LET r == proc[p].obj
           k == proc[p].rc
           read(fn, pc) == Native(proc[p], fn, RowsHandle(r), FALSE, Finalized(rws[r].stmt), k, pc) IN
       IF k = SQLITE_INTEGER THEN Set(p, read("column_int64", "next_store"))
       ELSE IF k = SQLITE_FLOAT THEN Set(p, read("column_double", "next_store"))
       ELSE IF k = SQLITE_TEXT THEN Set(p, read("column_text", "next_bytes"))
       ELSE IF k = SQLITE_BLOB THEN Set(p, read("column_blob", "next_bytes"))
       ELSE Set(p, Goto([proc[p] EXCEPT !.i = proc[p].i + 1, !.wrote = proc[p].wrote + 1],
                        "next_cols"))
    /\ UNCHANGED <<connVars, heapVars, engVars, serial, calls>>

\* Rows.scanColumn of text or blob: sqlite3_column_bytes(r.stmt.stmt, i).
RowsColumnBytes(p) ==
    /\ proc[p].pc = "next_bytes"
    /\ LET r == proc[p].obj IN
       Set(p, Native(proc[p], "column_bytes", RowsHandle(r), FALSE, Finalized(rws[r].stmt),
                     proc[p].rc, "next_store"))
    /\ UNCHANGED <<connVars, heapVars, engVars, serial, calls>>

\* Rows.Next stores the decoded value in dest[i].
RowsStore(p) ==
    /\ proc[p].pc = "next_store"
    /\ Set(p, Goto([proc[p] EXCEPT !.i = proc[p].i + 1, !.wrote = proc[p].wrote + 1],
                   "next_cols"))
    /\ UNCHANGED <<connVars, heapVars, engVars, serial, calls>>

\* Rows.Next returns the row.
RowsNextReturn(p) ==
    /\ proc[p].pc = "next_cols"
    /\ proc[p].i >= proc[p].n
    /\ Set(p, Return(proc[p], "row"))
    /\ UNCHANGED <<connVars, heapVars, engVars, serial, calls>>

\* ------------------------------------------------------------ errors

\* getErrorMessage, no message: sqlite3_errcode(db) keys the static text.
ErrCode(p) ==
    /\ proc[p].pc = "err_msg" /\ proc[p].rc = 0
    /\ Set(p,
          Native(proc[p], "errcode", DB, mu = p, ~dbOpen, SQLITE_ERROR, "err_code"))
    /\ UNCHANGED <<connVars, heapVars, engVars, serial, calls>>

\* A return of the error that leaves the lock as it is.
ErrReturnLocked(p) ==
    /\ \/ proc[p].pc = "err_msg" /\ proc[p].rc = 1
       \/ proc[p].pc = "err_code"
    /\ Set(p, Leave(proc[p], "nativeErr"))
    /\ UNCHANGED <<connVars, heapVars, engVars, serial, calls>>

\* The operation returns the error; a deferred Unlock runs.
ErrReturn(p) ==
    /\ \/ proc[p].pc = "err_msg" /\ proc[p].rc = 1
       \/ proc[p].pc = "err_code"
    /\ Set(p, Leave(proc[p], "nativeErr"))
    /\ mu' = IF mu = p THEN 0 ELSE mu
    /\ UNCHANGED <<closed, tx, stmts, heapVars, engVars, serial, calls>>

\* ------------------------------------------------------------ specification

\* Conn.BeginTx, Tx.Commit, Tx.Rollback.
TxOps(p) ==
    \/ \E c \in BOOLEAN : BeginTx(p, c)
    \/ BeginTxReturn(p)
    \/ \E t \in TxIds : TxCommit(p, t)
    \/ TxCommitExec(p)
    \/ TxCommitReturn(p)
    \/ \E t \in TxIds : TxRollback(p, t)
    \/ TxRollbackExec(p)
    \/ TxRollbackReturn(p)

\* Conn.PrepareContext.
PrepareOps(p) ==
    \/ \E c \in BOOLEAN, q \in Queries : PrepareContext(p, c, q)
    \/ PrepareExec(p)
    \/ PrepareReturn(p)

\* Conn.ExecContext without arguments.
DirectOps(p) ==
    \/ \E c \in BOOLEAN : ExecDirect(p, c)
    \/ ExecDirectRowid(p)
    \/ ExecDirectChanges(p)
    \/ ExecDirectReturn(p)

\* Conn.Close.
CloseOps(p) ==
    \/ ConnClose(p)
    \/ ConnCloseFinalize(p)
    \/ ConnCloseNative(p)
    \/ ConnCloseReturn(p)

\* Conn.Ping, Conn.ResetSession.
SessionOps(p) ==
    \/ \E c \in BOOLEAN : Ping(p, c)
    \/ \E c \in BOOLEAN : ResetSession(p, c)
    \/ ResetSessionReset(p)
    \/ ResetSessionReturn(p)

\* getErrorMessage and the return of a native failure.
ErrOps(p) ==
    \/ ErrCode(p)
    \/ ErrReturn(p)

\* Stmt.Close, NumInput, ExecContext, QueryContext.
StmtOps(p) ==
    \/ \E s \in StmtIds : StmtClose(p, s)
    \/ StmtCloseReturn(p)
    \/ \E s \in StmtIds : StmtNumInput(p, s)
    \/ StmtNumInputReturn(p)
    \/ \E s \in StmtIds, c \in BOOLEAN, k \in 0..MaxArgs : StmtExecContext(p, s, c, Args(k))
    \/ \E s \in StmtIds, c \in BOOLEAN, k \in 0..MaxArgs : StmtQueryContext(p, s, c, Args(k))
    \/ BindCheck(p)
    \/ BindValue(p)
    \/ BindReturn(p)
    \/ StmtExecStep(p)
    \/ StmtExecRowid(p)
    \/ StmtExecChanges(p)
    \/ StmtExecResult(p)
    \/ DeferredReset(p)
    \/ DeferredDone(p)
    \/ StmtQueryColumns(p)
    \/ StmtQueryName(p)
    \/ StmtQueryReturn(p)

\* The queries of callers that do not go on to use the statement.
ConnQueries == {q \in Queries : q.np = 0 /\ q.nc = 0}

\* Callers that prepare, execute directly, begin, commit and roll back
\* transactions and close the connection.
Next ==
    \E p \in Procs :
        \/ TxOps(p)
        \/ \E c \in BOOLEAN, q \in ConnQueries : PrepareContext(p, c, q)
        \/ PrepareExec(p)
        \/ PrepareReturn(p)
        \/ DirectOps(p)
        \/ CloseOps(p)
        \/ SessionOps(p)
        \/ ErrOps(p)

Spec == Init /\ [][Next]_vars

\* Rows.Next, Rows.Close.
RowsOps(p) ==
    \/ \E r \in RowIds : RowsClose(p, r)
    \/ RowsCloseReturn(p)
    \/ \E r \in RowIds, c \in BOOLEAN, n \in 0..MaxCols : RowsNext(p, r, c, n)
    \/ RowsNextRow(p)
    \/ RowsColumnType(p)
    \/ RowsScanColumn(p)
    \/ RowsColumnBytes(p)
    \/ RowsStore(p)
    \/ RowsNextReturn(p)

\* Serial callers that prepare statements, use them and their cursors and
\* close the connection.
NextStmt == \E p \in Procs : PrepareOps(p) \/ StmtOps(p) \/ RowsOps(p) \/ CloseOps(p) \/ ErrOps(p)

SpecStmt == InitSerial /\ [][NextStmt]_vars

\* Concurrent callers that prepare statements, ask them for their parameter
\* count, close them and close the connection.
NextRace ==
    \E p \in Procs :
        \/ \E c \in BOOLEAN, q \in ConnQueries : PrepareContext(p, c, q)
        \/ PrepareExec(p)
        \/ PrepareReturn(p)
        \/ \E s \in StmtIds : StmtClose(p, s)
        \/ StmtCloseReturn(p)
        \/ \E s \in StmtIds : StmtNumInput(p, s)
        \/ StmtNumInputReturn(p)
        \/ CloseOps(p)
        \/ ErrOps(p)

SpecRace == Init /\ [][NextRace]_vars

\* Conn.ExecContext with arguments, Conn.QueryContext.
QueryOps(p) ==
    \/ \E c \in BOOLEAN, q \in Queries, k \in 1..MaxArgs : ConnExecContext(p, c, q, k)
    \/ \E c \in BOOLEAN, q \in Queries, k \in 0..MaxArgs : ConnQueryContext(p, c, q, k)
    \/ ConnAfterPrepare(p)
    \/ ConnAfterStmt(p)
    \/ ConnAfterClose(p)

\* A serial caller that uses every operation of the connection, its
\* transactions, statements and cursors.
NextAll ==
    \E p \in Procs :
        \/ TxOps(p)
        \/ PrepareOps(p)
        \/ DirectOps(p)
        \/ SessionOps(p)
        \/ QueryOps(p)
        \/ StmtOps(p)
        \/ RowsOps(p)
        \/ CloseOps(p)
        \/ ErrOps(p)

InitAll == Opened /\ serial = MaxAllCalls /\ pure = NoPure

SpecAll == InitAll /\ [][NextAll]_vars

\* The argument lists of a caller that passes any ordinals and values:
\* up to MaxBindParams arguments, each with an ordinal from 0 on.
ArgLists ==
    LET NamedValues == [ord : 0..MaxBindParams, val : BindVals] IN
    UNION {[1..n -> NamedValues] : n \in 0..MaxBindParams}

\* A serial caller that prepares a statement with MaxBindParams parameters and
\* executes or queries it with the argument list drawn for the behaviour.
NextBind ==
    \E p \in Procs :
        \/ \E c \in BOOLEAN :
             PrepareContext(p, c, [kind |-> "sql", np |-> MaxBindParams, nc |-> 0])
        \/ PrepareExec(p)
        \/ PrepareReturn(p)
        \/ \E s \in StmtIds, c \in BOOLEAN : StmtExecContext(p, s, c, pure.arg)
        \/ \E s \in StmtIds, c \in BOOLEAN : StmtQueryContext(p, s, c, pure.arg)
        \/ BindCheck(p)
        \/ BindValue(p)
        \/ BindReturn(p)
        \/ StmtExecStep(p)
        \/ StmtExecRowid(p)
        \/ StmtExecChanges(p)
        \/ StmtExecResult(p)
        \/ DeferredReset(p)
        \/ DeferredDone(p)
        \/ StmtQueryColumns(p)
        \/ StmtQueryReturn(p)
        \/ ErrOps(p)

InitBind ==
    /\ Opened
    /\ serial = MaxBindCalls
    /\ pure \in {[NoPure EXCEPT !.fn = "bind", !.arg = args] : args \in ArgLists}

SpecBind == InitBind /\ [][NextBind]_vars

\* ------------------------------------------------------------ pure functions

\* -- the transaction mode of BeginTx

\* The isolation levels of database/sql; "other" is any value that is none of them.
IsolationLevels ==
    {"LevelDefault", "LevelReadUncommitted", "LevelReadCommitted", "LevelWriteCommitted",
     "LevelRepeatableRead", "LevelSnapshot", "LevelSerializable", "LevelLinearizable", "other"}

\* driver.TxOptions.
TxOptions == [ReadOnly : BOOLEAN, Isolation : IsolationLevels]

\* A mode selection that does not look at ReadOnly.
sqliteModeOfIsolation(opts) ==
    CASE opts.Isolation \in {"LevelRepeatableRead", "LevelSerializable", "LevelLinearizable"}
           -> "IMMEDIATE"
      [] opts.Isolation \in {"LevelWriteCommitted", "LevelSnapshot"} -> "EXCLUSIVE"
      [] OTHER -> "DEFERRED"

\* sqliteMode of Conn.BeginTx.
sqliteMode(opts) ==
    IF ~opts.ReadOnly
    THEN CASE opts.Isolation \in {"LevelRepeatableRead", "LevelSerializable", "LevelLinearizable"}
                -> "IMMEDIATE"
           [] opts.Isolation \in {"LevelWriteCommitted", "LevelSnapshot"} -> "EXCLUSIVE"
           [] OTHER -> "DEFERRED"
    ELSE "DEFERRED"

\* -- binding a host value and decoding a column

\* A 64-bit integer is <<hi, lo>>, standing for hi * 2^63 + lo with lo small:
\* a uint64 has hi in {0, 1}, an int64 has hi in {-1, 0}.
\* int64(v) of an unsigned 64-bit v: values from 2^63 on wrap to v - 2^64.
ToInt64(v) == IF v[1] = 1 THEN <<0 - 1, v[2]>> ELSE v

WideUnsignedKinds == {"uint64", "uint"}
IntKinds == {"int64", "int", "int32", "int16", "int8", "uint32", "uint16", "uint8"} \cup WideUnsignedKinds

\* The host values the driver binds (time.Time apart): nil, the integer
\* types, bool, the float types, string and []byte.  Byte strings have up to
\* MaxLen bytes; 0 is the NUL byte.
HostValues ==
    LET SignedKinds == {"int64", "int", "int32", "int16", "int8"}
        SmallInts == {<<0, lo>> : lo \in (0 - MaxLow)..MaxLow}
        SmallNats == {<<0, lo>> : lo \in 0..MaxLow}
        LowInt64s == {<<0 - 1, lo>> : lo \in 0..MaxLow}
        HighUint64s == {<<1, lo>> : lo \in 0..MaxLow}
        ByteStrings == UNION {[1..n -> {0, 97}] : n \in 0..MaxLen}
    IN {[kind |-> "nil", v |-> <<>>]}
       \cup {[kind |-> k, v |-> v] : k \in SignedKinds, v \in SmallInts}
       \cup {[kind |-> "int64", v |-> v] : v \in LowInt64s}
       \cup {[kind |-> k, v |-> v] : k \in IntKinds \ SignedKinds, v \in SmallNats}
       \cup {[kind |-> k, v |-> v] : k \in WideUnsignedKinds, v \in HighUint64s}
       \cup {[kind |-> "bool", v |-> <<b>>] : b \in BOOLEAN}
       \cup {[kind |-> k, v |-> <<f>>] : k \in {"float64", "float32"}, f \in (0 - MaxLow)..MaxLow}
       \cup {[kind |-> k, v |-> s] : k \in {"string", "bytes"}, s \in ByteStrings}

\* cString(s): no pointer for the empty string, else a pinned NUL-terminated copy.
cString(s) ==
    IF s = <<>> THEN [null |-> TRUE, mem |-> <<>>] ELSE [null |-> FALSE, mem |-> s \o <<0>>]

\* allocateBytes(b): no pointer for an empty slice, else the pinned bytes.
allocateBytes(b) ==
    IF Len(b) = 0 THEN [null |-> TRUE, mem |-> <<>>] ELSE [null |-> FALSE, mem |-> b]

\* The null pointer passed as 0.
NullPtr == [null |-> TRUE, mem |-> <<>>]

\* What the engine holds for a bound parameter, and returns for it as a column:
\* its type and its value; the bytes of a text or blob are v followed by pad
\* more bytes, all "a" (97), which are counted and not written out.
sqlite3_bind_null == [type |-> SQLITE_NULL, v |-> <<>>, pad |-> 0]
sqlite3_bind_int64(val) == [type |-> SQLITE_INTEGER, v |-> val, pad |-> 0]
sqlite3_bind_double(val) == [type |-> SQLITE_FLOAT, v |-> val, pad |-> 0]
\* A null pointer binds NULL, whatever the length.
sqlite3_bind_text(ptr, n) ==
    IF ptr.null THEN sqlite3_bind_null
    ELSE [type |-> SQLITE_TEXT, v |-> SubSeq(ptr.mem, 1, n), pad |-> 0]
sqlite3_bind_blob(ptr, n) ==
    IF ptr.null THEN sqlite3_bind_null
    ELSE [type |-> SQLITE_BLOB, v |-> SubSeq(ptr.mem, 1, n), pad |-> 0]

\* Stmt.bindValue: the parameter as the engine holds it after the bind.
bindValue(value) ==
    CASE value.kind = "nil" -> sqlite3_bind_null
      [] value.kind \in IntKinds \ WideUnsignedKinds -> sqlite3_bind_int64(value.v)
      [] value.kind \in WideUnsignedKinds -> sqlite3_bind_int64(ToInt64(value.v))
      [] value.kind = "bool" -> sqlite3_bind_int64(IF value.v[1] THEN <<0, 1>> ELSE <<0, 0>>)
      [] value.kind \in {"float64", "float32"} -> sqlite3_bind_double(value.v)
      [] value.kind = "string" -> sqlite3_bind_text(cString(value.v), Len(value.v))
      [] value.kind = "bytes" ->
           IF Len(value.v) = 0
           THEN sqlite3_bind_blob(NullPtr, 0)
           ELSE sqlite3_bind_blob(allocateBytes(value.v), Len(value.v))

\* sqlite3_column_text: a pointer to the text, NUL-terminated (also when
\* empty); fill is the number of bytes "a" that follow mem (the terminator
\* after them is not written out).
sqlite3_column_text(col) ==
    IF col.pad = 0
    THEN [null |-> FALSE, mem |-> col.v \o <<0>>, fill |-> 0]
    ELSE [null |-> FALSE, mem |-> col.v, fill |-> col.pad]
\* sqlite3_column_blob: a pointer to the bytes, null for a zero-length blob.
sqlite3_column_blob(col) ==
    IF Len(col.v) + col.pad = 0 THEN NullPtr
    ELSE [null |-> FALSE, mem |-> col.v, fill |-> col.pad]
sqlite3_column_bytes(col) == Len(col.v) + col.pad

\* maxLen of goStringN and goBytesN: 1 << 20.
maxLen == 1048576

\* bytes[i] = *(ptr + i) for i < n: the n bytes at ptr, those of the fill
\* counted in pad.
Copy(ptr, n) ==
    IF n <= Len(ptr.mem)
    THEN [v |-> SubSeq(ptr.mem, 1, n), pad |-> 0]
    ELSE [v |-> ptr.mem, pad |-> n - Len(ptr.mem)]

\* goStringN and goBytesN: the first n bytes at ptr, and no more than maxLen
\* of them; nothing for a null pointer.
goStringN(ptr, n) ==
    IF ptr.null \/ n <= 0 THEN [v |-> <<>>, pad |-> 0]
    ELSE Copy(ptr, IF n > maxLen THEN maxLen ELSE n)
goBytesN(ptr, n) ==
    IF ptr.null \/ n <= 0 THEN [v |-> <<>>, pad |-> 0]
    ELSE Copy(ptr, IF n > maxLen THEN maxLen ELSE n)

\* The text and blob columns the engine may hold: every short byte string,
\* zero bytes included, alone and followed by so many bytes that the column
\* is a byte longer than maxLen.
Columns ==
    LET ByteStrings == UNION {[1..n -> {0, 97}] : n \in 0..MaxLen} IN
    {[type |-> ty, v |-> s, pad |-> k] :
       ty \in {SQLITE_TEXT, SQLITE_BLOB}, s \in ByteStrings, k \in {0, maxLen + 1 - MaxLen}}

\* Rows.scanColumn: the driver.Value of a column of the given type.
scanColumn(col) ==
    CASE col.type = SQLITE_NULL -> [kind |-> "nil", v |-> <<>>]
      [] col.type = SQLITE_INTEGER -> [kind |-> "int64", v |-> col.v]
      [] col.type = SQLITE_FLOAT -> [kind |-> "float64", v |-> col.v]
      [] col.type = SQLITE_TEXT ->
           LET s == goStringN(sqlite3_column_text(col), sqlite3_column_bytes(col)) IN
           [kind |-> "string", v |-> s.v, pad |-> s.pad]
      [] col.type = SQLITE_BLOB ->
           IF sqlite3_column_bytes(col) = 0
           THEN [kind |-> "bytes", v |-> <<>>, pad |-> 0]
           ELSE LET b == goBytesN(sqlite3_column_blob(col), sqlite3_column_bytes(col)) IN
                [kind |-> "bytes", v |-> b.v, pad |-> b.pad]
      [] OTHER -> [kind |-> "nil", v |-> <<>>]

\* -- parseTimeInteger

\* A non-negative int64 is the sequence of its decimal digits, most
\* significant first and without leading zeros; zero is <<0>>.
Zeros(k) == [j \in 1..k |-> 0]
Pow10(k) == <<1>> \o Zeros(k)
RECURSIVE Strip(_)
Strip(d) == IF Len(d) > 1 /\ d[1] = 0 THEN Strip(Tail(d)) ELSE d

\* a >= b.
Geq(a, b) ==
    \/ Len(a) > Len(b)
    \/ /\ Len(a) = Len(b)
       /\ \/ a = b
          \/ \E k \in 1..Len(a) : a[k] > b[k] /\ \A j \in 1..(k - 1) : a[j] = b[j]

\* a / b, a % b and a * b for b a power of ten.
Quot(a, b) == IF Len(a) < Len(b) THEN <<0>> ELSE SubSeq(a, 1, Len(a) - (Len(b) - 1))
Rem(a, b) == IF Len(a) < Len(b) THEN a ELSE Strip(SubSeq(a, Len(a) - (Len(b) - 1) + 1, Len(a)))
Times(a, b) == IF a = <<0>> THEN a ELSE a \o Zeros(Len(b) - 1)

nanosecondsPerSecond == Pow10(9)

\* math.MaxInt64.
MaxInt64 == <<9, 2, 2, 3, 3, 7, 2, 0, 3, 6, 8, 5, 4, 7, 7, 5, 8, 0, 7>>

\* The int64 arguments drawn: zero, for every number of digits the numbers
\* made of a leading digit, one repeated digit and a last digit, and
\* math.MaxInt64; each but zero also negated.
TimeIntegers ==
    LET DigitPatterns ==
          {<<0>>, MaxInt64}
          \cup {<<f>> : f \in {1, 9}}
          \cup {<<f>> \o [j \in 1..(n - 2) |-> m] \o <<l>> :
                  f \in {1, 9}, m \in {0, 9}, l \in {0, 7, 9}, n \in 2..(Len(MaxInt64) - 1)}
          \cup {<<1>> \o [j \in 1..(Len(MaxInt64) - 2) |-> m] \o <<l>> :
                  m \in {0, 9}, l \in {0, 7, 9}}
    IN {[neg |-> FALSE, d |-> d] : d \in DigitPatterns}
       \cup {[neg |-> TRUE, d |-> d] : d \in DigitPatterns \ {<<0>>}}

\* time.Time{} with false.
NoTime == [ok |-> FALSE, sec |-> <<0>>, nsec |-> <<0>>]
\* time.Unix(sec, nsec).UTC() with true, for 0 <= nsec < 1e9.
UnixTime(sec, nsec) == [ok |-> TRUE, sec |-> sec, nsec |-> nsec]

\* A parseTimeInteger that reads every integer as seconds.
parseTimeIntegerSeconds(i) == IF i.neg THEN NoTime ELSE UnixTime(i.d, <<0>>)

\* parseTimeInteger.
parseTimeInteger(i) ==
    LET millisecondsPerSecond == Pow10(3)
        microsecondsPerSecond == Pow10(6)
        nanosecondsPerMillisecond == Pow10(6)
        nanosecondsPerMicrosecond == Pow10(3)
        unixMillisMin == Pow10(12)
        unixMicrosMin == Pow10(15)
        unixNanosMin == Pow10(18) IN
    IF i.neg THEN NoTime
    ELSE IF Geq(i.d, unixNanosMin)
    THEN UnixTime(Quot(i.d, nanosecondsPerSecond), Rem(i.d, nanosecondsPerSecond))
    ELSE IF Geq(i.d, unixMicrosMin)
    THEN UnixTime(Quot(i.d, microsecondsPerSecond),
                  Times(Rem(i.d, microsecondsPerSecond), nanosecondsPerMicrosecond))
    ELSE IF Geq(i.d, unixMillisMin)
    THEN UnixTime(Quot(i.d, millisecondsPerSecond),
                  Times(Rem(i.d, millisecondsPerSecond), nanosecondsPerMillisecond))
    ELSE UnixTime(i.d, <<0>>)

\* -- parseTimeFloat

\* A float64 is a number of halves (sign, the decimal digits of the integer
\* part of its magnitude, and whether a half follows), an infinity or NaN;
\* on halves below 2^52 the float arithmetic of the code is exact.
\* julianToTime: unix := (jd - julianDay1970) * secondsPerDay, and its
\* integer part as seconds (of a day count in halves the product is whole).
\* The time is time.Unix(sec, nsec) with sec = -sec.d when sec.neg.
julianToTime(jd) ==
    LET RECURSIVE Value(_), Digits(_)
        Value(d) == IF d = <<>> THEN 0 ELSE 10 * Value(SubSeq(d, 1, Len(d) - 1)) + d[Len(d)]
        Digits(n) == IF n < 10 THEN <<n>> ELSE Digits(n \div 10) \o <<n % 10>>
        \* 2 * (jd - julianDay1970), and its magnitude in thousands and units
        halves == 2 * Value(jd.d) + (IF jd.half THEN 1 ELSE 0) - 4881175
        mag == IF halves < 0 THEN 0 - halves ELSE halves
        \* mag * (secondsPerDay / 2) = high * 10^5 + low
        high == (mag \div 1000) * 432 + ((mag % 1000) * 43200) \div 100000
        low == ((mag % 1000) * 43200) % 100000
        tail == Digits(low)
    IN [ok |-> TRUE, neg |-> halves < 0,
        sec |-> Strip(Digits(high) \o Zeros(5 - Len(tail)) \o tail), nsec |-> <<0>>]

\* parseTimeFloat: the times it may return (one, but for a float whose
\* conversion to int64 Go leaves to the implementation: then the zero of
\* arm64 and the minimum of amd64 stand for what a build produces).
parseTimeFloat(f) ==
    LET julianDayMin == <<1, 7, 2, 1, 4, 2, 5>>    \* and a half
        julianDayMax == <<5, 3, 7, 3, 4, 8, 4>>    \* and a half
        unixEpochMax == <<2, 5, 3, 4, 0, 2, 3, 0, 0, 7, 9, 9>>
        MinInt64 == <<9, 2, 2, 3, 3, 7, 2, 0, 3, 6, 8, 5, 4, 7, 7, 5, 8, 0, 8>>
        Negative == f.neg /\ (f.d # <<0>> \/ f.half)
        \* f >= m + 0.5, f <= m + 0.5, f < 0, f > m; every comparison with NaN is false
        GeqHalf(m) ==
            CASE f.kind = "nan" -> FALSE
              [] f.kind = "inf" -> ~f.neg
              [] OTHER -> ~Negative /\ Geq(f.d, m) /\ (f.d # m \/ f.half)
        LeqHalf(m) ==
            CASE f.kind = "nan" -> FALSE
              [] f.kind = "inf" -> f.neg
              [] OTHER -> Negative \/ Geq(m, f.d)
        Below0 ==
            CASE f.kind = "nan" -> FALSE
              [] f.kind = "inf" -> f.neg
              [] OTHER -> Negative
        Above(m) ==
            CASE f.kind = "nan" -> FALSE
              [] f.kind = "inf" -> ~f.neg
              [] OTHER -> ~Negative /\ Geq(f.d, m) /\ (f.d # m \/ f.half)
    IN IF GeqHalf(julianDayMin) /\ LeqHalf(julianDayMax) THEN {julianToTime(f)}
       ELSE IF Below0 \/ Above(unixEpochMax)
       THEN {[ok |-> FALSE, neg |-> FALSE, sec |-> <<0>>, nsec |-> <<0>>]}
       ELSE IF f.kind = "nan"
       THEN {[ok |-> TRUE, neg |-> FALSE, sec |-> <<0>>, nsec |-> <<0>>],
             [ok |-> TRUE, neg |-> TRUE, sec |-> MinInt64, nsec |-> MinInt64]}
       ELSE {[ok |-> TRUE, neg |-> FALSE, sec |-> f.d,
              nsec |-> IF f.half THEN <<5>> \o Zeros(8) ELSE <<0>>]}

\* -- opening a connection

\* strconv.Atoi of a string of the characters "-", "0", "5" and "x": an
\* optional sign, then one digit or more.
Atoi(s) ==
    LET digits == IF s # <<>> /\ s[1] = "-" THEN Tail(s) ELSE s
        Digit(c) == IF c = "5" THEN 5 ELSE 0
        RECURSIVE Value(_)
        Value(d) == IF d = <<>> THEN 0 ELSE 10 * Value(SubSeq(d, 1, Len(d) - 1)) + Digit(d[Len(d)])
    IN IF digits = <<>> \/ \E i \in 1..Len(digits) : digits[i] \notin {"0", "5"}
       THEN [ok |-> FALSE, v |-> 0]
       ELSE [ok |-> TRUE, v |-> IF digits = s THEN Value(digits) ELSE 0 - Value(digits)]

\* The data source names drawn: the empty string, a plain path, ":memory:",
\* and file: URIs with a mode parameter ("" when there is none) and a
\* _busy_timeout parameter of up to MaxLen characters (<<>> when there is
\* none, as url.Values.Get returns "").
DSNs ==
    {[form |-> f, mode |-> "", bt |-> <<>>] : f \in {"empty", "plain", ":memory:"}}
    \cup {[form |-> "file:", mode |-> m, bt |-> s] :
            m \in {"", "ro", "memory", "other"},
            s \in UNION {[1..n -> {"-", "0", "5", "x"}] : n \in 0..MaxLen}}

\* parseDSN: the busy timeout of the configuration, or an error.
parseDSN(dsn) ==
    IF dsn.form = "empty" THEN [ok |-> FALSE, busyTimeout |-> 0]
    ELSE IF dsn.form = "file:"
    THEN IF dsn.mode \notin {"", "ro", "rw", "rwc", "memory"}
         THEN [ok |-> FALSE, busyTimeout |-> 0]
         ELSE [ok |-> TRUE,
               busyTimeout |-> IF dsn.bt # <<>> /\ Atoi(dsn.bt).ok /\ Atoi(dsn.bt).v > 0
                               THEN Atoi(dsn.bt).v
                               ELSE 5000]
    ELSE [ok |-> TRUE, busyTimeout |-> 0]

\* openDB when sqlite3_open_v2 returns rc: the connection and the busy
\* timeout of its database handle, which is 0 (none) unless
\* sqlite3_busy_timeout sets it.
openDB(cfg, rc) ==
    IF rc # SQLITE_OK THEN [ok |-> FALSE, busy |-> 0]
    ELSE [ok |-> TRUE, busy |-> IF cfg.busyTimeout > 0 THEN cfg.busyTimeout ELSE 0]

\* -- the functions applied to drawn arguments

\* A call of one of the functions: its argument, the parameter as bound (for
\* the round trip) and the result once it has returned.
PureCalls ==
    {[fn |-> "sqliteMode", arg |-> o, mid |-> <<>>, out |-> <<>>, pc |-> "call"] : o \in TxOptions}
    \cup {[fn |-> "roundTrip", arg |-> v, mid |-> <<>>, out |-> <<>>, pc |-> "call"] : v \in HostValues}
    \cup {[fn |-> "scanColumn", arg |-> <<>>, mid |-> c, out |-> <<>>, pc |-> "bound"] : c \in Columns}
    \cup {[fn |-> "Open", arg |-> d, mid |-> <<>>, out |-> <<>>, pc |-> "call"] : d \in DSNs}
    \cup {[fn |-> "parseTimeInteger", arg |-> i, mid |-> <<>>, out |-> <<>>, pc |-> "call"] :
            i \in TimeIntegers}
    \cup LET \* The floats drawn: both signs of zero, the bounds of the ranges of
             \* parseTimeFloat and their neighbours, each with and without a
             \* half and negated, the infinities and NaN.
             IntegerParts ==
                 {<<0>>, <<1>>, <<1, 7, 2, 1, 4, 2, 4>>, <<1, 7, 2, 1, 4, 2, 5>>,
                  <<1, 7, 2, 1, 4, 2, 6>>, <<2, 4, 4, 0, 5, 8, 6>>, <<2, 4, 4, 0, 5, 8, 7>>,
                  <<2, 4, 4, 0, 5, 8, 8>>, <<2, 4, 6, 0, 3, 8, 4>>, <<5, 3, 7, 3, 4, 8, 4>>,
                  <<5, 3, 7, 3, 4, 8, 5>>, <<2, 5, 3, 4, 0, 2, 3, 0, 0, 7, 9, 8>>,
                  <<2, 5, 3, 4, 0, 2, 3, 0, 0, 7, 9, 9>>, <<2, 5, 3, 4, 0, 2, 3, 0, 0, 8, 0, 0>>}
             Floats ==
                 {[kind |-> "num", neg |-> s, d |-> d, half |-> h] :
                    s \in BOOLEAN, d \in IntegerParts, h \in BOOLEAN}
                 \cup {[kind |-> "inf", neg |-> s, d |-> <<0>>, half |-> FALSE] : s \in BOOLEAN}
                 \cup {[kind |-> "nan", neg |-> FALSE, d |-> <<0>>, half |-> FALSE]}
         IN {[fn |-> "parseTimeFloat", arg |-> f, mid |-> <<>>, out |-> <<>>, pc |-> "call"] :
               f \in Floats}

InitPure == Opened /\ serial = MaxSerialCalls /\ pure \in PureCalls

\* BeginTx selects the mode for its options.
ApplySqliteMode ==
    /\ pure.fn = "sqliteMode" /\ pure.pc = "call"
    /\ pure' = [pure EXCEPT !.out = sqliteMode(pure.arg), !.pc = "done"]
    /\ UNCHANGED <<connVars, heapVars, engVars, proc, serial, calls>>

\* The host value is bound to a parameter.
ApplyBindValue ==
    /\ pure.fn = "roundTrip" /\ pure.pc = "call"
    /\ pure' = [pure EXCEPT !.mid = bindValue(pure.arg), !.pc = "bound"]
    /\ UNCHANGED <<connVars, heapVars, engVars, proc, serial, calls>>

\* The column (the parameter as bound, or a column the engine holds) is
\* decoded.
ApplyScanColumn ==
    /\ pure.fn \in {"roundTrip", "scanColumn"} /\ pure.pc = "bound"
    /\ pure' = [pure EXCEPT !.out = scanColumn(pure.mid), !.pc = "done"]
    /\ UNCHANGED <<connVars, heapVars, engVars, proc, serial, calls>>

\* The integer is parsed as a time.
ApplyParseTimeInteger ==
    /\ pure.fn = "parseTimeInteger" /\ pure.pc = "call"
    /\ pure' = [pure EXCEPT !.out = parseTimeInteger(pure.arg), !.pc = "done"]
    /\ UNCHANGED <<connVars, heapVars, engVars, proc, serial, calls>>

\* The float is parsed as a time.
ApplyParseTimeFloat ==
    /\ pure.fn = "parseTimeFloat" /\ pure.pc = "call"
    /\ \E t \in parseTimeFloat(pure.arg) : pure' = [pure EXCEPT !.out = t, !.pc = "done"]
    /\ UNCHANGED <<connVars, heapVars, engVars, proc, serial, calls>>

\* Driver.Open: parseDSN, then openDB unless the name was rejected.
ApplyOpen ==
    /\ pure.fn = "Open" /\ pure.pc = "call"
    /\ LET cfg == parseDSN(pure.arg) IN
       IF ~cfg.ok
       THEN pure' = [pure EXCEPT !.out = [ok |-> FALSE, busy |-> 0], !.pc = "done"]
       ELSE \E rc \in AnyRcs : pure' = [pure EXCEPT !.out = openDB(cfg, rc), !.pc = "done"]
    /\ UNCHANGED <<connVars, heapVars, engVars, proc, serial, calls>>

NextPure ==
    \/ ApplySqliteMode
    \/ ApplyBindValue
    \/ ApplyScanColumn
    \/ ApplyParseTimeInteger
    \/ ApplyParseTimeFloat
    \/ ApplyOpen

SpecPure == InitPure /\ [][NextPure]_vars

\* ------------------------------------------------------------ properties

\* Caller p has returned from an operation and what it did is still recorded.
Returned(p) == proc[p].pc = "idle" /\ proc[p].op # "none"

\* The native calls an operation issued, and their names.
NativeCalls(r) == {r.log[i] : i \in 1..Len(r.log)}
Fns(r) == {c.fn : c \in NativeCalls(r)}

\* The operations of the claims.
ConnUses == {"Prepare", "ExecDirect", "BeginTx"}
TxUses == {"Commit", "Rollback"}
BindUses == {"StmtExec", "StmtQuery"}
StmtUses == {"StmtExec", "StmtQuery", "NumInput", "StmtClose"}
RowsUses == {"RowsNext", "RowsClose"}

\* C1: under every interleaving no two native calls are in flight at the same
\* time, and every native call is issued by a caller that holds the
\* connection's lock.
C1_NativeCallsSerialized ==
    /\ \A p, q \in Procs : p # q => ~(proc[p].inflight /\ proc[q].inflight)
    /\ \A p \in Procs : \A c \in NativeCalls(proc[p]) : c.held

\* C2 as stated: a PrepareContext, ExecContext without arguments or BeginTx
\* called after Close has succeeded fails with ErrBadConn and issues no native
\* call.
C2_ClosedConnRejects ==
    \A p \in Procs :
        (Returned(p) /\ proc[p].op \in ConnUses /\ "closed" \in proc[p].pre)
        => (proc[p].res = "ErrBadConn" /\ proc[p].log = <<>>)

\* C2 amended: such a call issues no native call; it fails with ErrBadConn when
\* its context is not cancelled, and with the context's error when it is.
C2_ClosedConnRejectsLive ==
    \A p \in Procs :
        (Returned(p) /\ proc[p].op \in ConnUses /\ "closed" \in proc[p].pre)
        => /\ proc[p].log = <<>>
           /\ proc[p].res = IF "cancelled" \in proc[p].pre THEN "ctxErr" ELSE "ErrBadConn"

\* An ExecContext without arguments, called with a live context on the closed
\* connection, has returned ErrBadConn.
C2_Witness ==
    \E p \in Procs :
        /\ Returned(p) /\ proc[p].op = "ExecDirect"
        /\ proc[p].pre = {"closed"} /\ proc[p].res = "ErrBadConn"

\* C3: Conn.Close finalizes every statement that is still registered, and a
\* later ExecContext, QueryContext, NumInput or Close of a statement that
\* Conn.Close finalized issues no native call (and ExecContext and QueryContext
\* fail).
C3_CloseFinalizesStatements ==
    /\ \A p \in Procs :
          (Returned(p) /\ proc[p].op = "Close" /\ "closed" \notin proc[p].pre)
          => \A s \in StmtIds : sts[s].alloc => Finalized(s)
    /\ \A p \in Procs :
          (Returned(p) /\ proc[p].op \in StmtUses /\ "connFinalized" \in proc[p].pre)
          => /\ proc[p].log = <<>>
             /\ proc[p].op \in BindUses => proc[p].res # "ok"

\* C4: on an open connection and with a live context, a BeginTx called while a
\* transaction is neither committed nor rolled back fails with the conflict
\* error and issues no native BEGIN; called when there is none, it issues the
\* BEGIN and does not fail with the conflict error.
C4_BeginTxConflict ==
    \A p \in Procs :
        (Returned(p) /\ proc[p].op = "BeginTx"
           /\ "closed" \notin proc[p].pre /\ "cancelled" \notin proc[p].pre)
        => IF "open" \in proc[p].pre
           THEN proc[p].res = "txInProgress" /\ proc[p].log = <<>>
           ELSE proc[p].res # "txInProgress" /\ proc[p].log # <<>>

\* C5: on a finished transaction Rollback returns success and Commit returns
\* the already-finished error, and neither issues a native call.
C5_FinishedTx ==
    \A p \in Procs :
        (Returned(p) /\ proc[p].op \in TxUses /\ "finished" \in proc[p].pre)
        => /\ proc[p].log = <<>>
           /\ proc[p].op = "Rollback" => proc[p].res = "ok"
           /\ proc[p].op = "Commit" => proc[p].res = "alreadyFinished"

\* A Commit of a transaction that was finished has returned.
C5_Witness ==
    \E p \in Procs :
        /\ Returned(p) /\ proc[p].op = "Commit"
        /\ "finished" \in proc[p].pre /\ proc[p].res = "alreadyFinished"

\* C6 as stated: ExecContext and QueryContext of a live statement with a
\* number of arguments other than its parameter count fail with the
\* count-mismatch error and issue neither a native bind nor a step.
C6_CountMismatch ==
    \A p \in Procs :
        (Returned(p) /\ proc[p].op \in BindUses
           /\ "mismatch" \in proc[p].pre /\ "finalized" \notin proc[p].pre)
        => /\ proc[p].res = "countMismatch"
           /\ Fns(proc[p]) \cap {"bind", "step"} = {}

\* C6 amended: such a call issues neither a native bind nor a step; it fails
\* with the count-mismatch error when its context is not cancelled, and with
\* the context's error when it is.
C6_CountMismatchLive ==
    \A p \in Procs :
        (Returned(p) /\ proc[p].op \in BindUses
           /\ "mismatch" \in proc[p].pre /\ "finalized" \notin proc[p].pre)
        => /\ Fns(proc[p]) \cap {"bind", "step"} = {}
           /\ proc[p].res = IF "cancelled" \in proc[p].pre THEN "ctxErr" ELSE "countMismatch"

\* An ExecContext of a live statement with a live context and the wrong number
\* of arguments has returned the count-mismatch error.
C6_Witness ==
    \E p \in Procs :
        /\ Returned(p) /\ proc[p].op = "StmtExec"
        /\ proc[p].pre = {"mismatch"} /\ proc[p].res = "countMismatch"

\* C7: the connection has at most one unfinished transaction, and its slot
\* refers to the unfinished transaction whenever there is one.
C7_OneUnfinishedTx ==
    /\ Cardinality(OpenTxs) <= 1
    /\ \A t \in OpenTxs : tx = t

\* C8: an operation on a closed statement, or on a cursor of a closed
\* statement, issues no native call on a statement handle.
C8_ClosedStmtSilent ==
    \A p \in Procs :
        (Returned(p) /\ proc[p].op \in StmtUses \cup RowsUses /\ "closed" \in proc[p].pre)
        => \A c \in NativeCalls(proc[p]) : c.h = DB

\* C9 as stated: a Next on a cursor that is done returns end-of-rows, writes no
\* destination slot and does not step the statement.
C9_DoneCursorEOF ==
    \A p \in Procs :
        (Returned(p) /\ proc[p].op = "RowsNext" /\ "done" \in proc[p].pre)
        => /\ proc[p].res = "EOF"
           /\ proc[p].wrote = 0
           /\ "step" \notin Fns(proc[p])

\* C9 amended: such a Next writes no destination slot and issues no native
\* call; it returns end-of-rows when the context of the query is not
\* cancelled, and the context's error when it is.
C9_DoneCursorEOFLive ==
    \A p \in Procs :
        (Returned(p) /\ proc[p].op = "RowsNext" /\ "done" \in proc[p].pre)
        => /\ proc[p].wrote = 0
           /\ proc[p].log = <<>>
           /\ proc[p].res = IF "cancelled" \in proc[p].pre THEN "ctxErr" ELSE "EOF"

\* A Next on a done cursor of a live statement, its context live, has returned
\* end-of-rows.
C9_Witness ==
    \E p \in Procs :
        /\ Returned(p) /\ proc[p].op = "RowsNext"
        /\ proc[p].pre = {"done"} /\ proc[p].res = "EOF"

\* C10: a Close of a connection that a Close has closed returns success at
\* once, issues no native call and changes nothing of the connection, its
\* objects or the engine.
C10_CloseIdempotent ==
    [][\A p \in Procs :
          (Idle(p) /\ closed /\ proc'[p].op = "Close" /\ calls' = calls + 1)
          => /\ proc'[p].pc = "idle"
             /\ proc'[p].res = "ok"
             /\ proc'[p].log = <<>>
             /\ UNCHANGED <<connVars, heapVars, engVars>>]_vars

\* A Close of the closed connection has returned success.
C10_Witness ==
    \E p \in Procs :
        /\ Returned(p) /\ proc[p].op = "Close"
        /\ "closed" \in proc[p].pre /\ proc[p].res = "ok"

\* C11: a Commit of an unfinished transaction returns success or the engine
\* error; when the native commit failed the transaction is still unfinished
\* and the connection's slot still refers to it, and when it succeeded the
\* transaction is finished and the slot is empty.
C11_CommitOutcome ==
    \A p \in Procs :
        (Returned(p) /\ proc[p].op = "Commit" /\ "finished" \notin proc[p].pre)
        => /\ proc[p].res \in {"ok", "nativeErr"}
           /\ proc[p].res = "nativeErr" => ~txs[proc[p].obj].finished /\ tx = proc[p].obj
           /\ proc[p].res = "ok" => txs[proc[p].obj].finished /\ tx = 0

\* C12: when a Rollback of an unfinished transaction has returned, the
\* transaction is finished and the connection's slot is empty.
C12_RollbackFinishes ==
    \A p \in Procs :
        (Returned(p) /\ proc[p].op = "Rollback" /\ "finished" \notin proc[p].pre)
        => txs[proc[p].obj].finished /\ tx = 0

\* C14: a caller that is not executing an operation does not hold the
\* connection's lock, and the lock is free whenever no operation is executing.
C14_LockReleased ==
    /\ \A p \in Procs : Idle(p) => mu # p
    /\ (\A p \in Procs : Idle(p)) => mu = 0

\* A Commit that took the lock has returned the failure of its native call,
\* no operation is executing, and the lock is free.
C14_Witness ==
    /\ \A p \in Procs : Idle(p)
    /\ \E p \in Procs : Returned(p) /\ proc[p].op = "Commit" /\ proc[p].res = "nativeErr"
    /\ mu = 0

\* C17: on an open connection and with a live context, ResetSession fails
\* without a native call when a transaction is neither committed nor rolled
\* back; when there is none it resets every registered statement, and nothing
\* else, and leaves the connection open and its slot empty.
C17_ResetSession ==
    \A p \in Procs :
        (Returned(p) /\ proc[p].op = "ResetSession"
           /\ "closed" \notin proc[p].pre /\ "cancelled" \notin proc[p].pre)
        => IF "open" \in proc[p].pre
           THEN proc[p].res = "txActive" /\ proc[p].log = <<>>
           ELSE /\ proc[p].res = "ok"
                /\ Fns(proc[p]) \subseteq {"reset"}
                /\ {c.h : c \in NativeCalls(proc[p])} = {sts[s].stmt : s \in Registered}
                /\ ~closed /\ tx = 0

\* The positions of the native calls named fn in the log of an operation.
CallsOf(r, fn) == {i \in 1..Len(r.log) : r.log[i].fn = fn}

\* C15: a Stmt.Close that reached the finalize leaves the statement marked
\* closed whatever the finalize returned, and a Close of a statement that an
\* earlier Stmt.Close finalized issues no native call.
C15_CloseOnce ==
    \A p \in Procs :
        (Returned(p) /\ proc[p].op = "StmtClose")
        => /\ sts[proc[p].obj].closed
           /\ ("finalized" \in proc[p].pre /\ "connFinalized" \notin proc[p].pre)
              => proc[p].log = <<>>

C18_TxMode ==
    (pure.fn = "sqliteMode" /\ pure.pc = "done")
    => LET o == pure.arg IN
       /\ pure.out \in {"DEFERRED", "IMMEDIATE", "EXCLUSIVE"}
       /\ pure.out = "IMMEDIATE"
          <=> /\ ~o.ReadOnly
              /\ o.Isolation \in {"LevelRepeatableRead", "LevelSerializable", "LevelLinearizable"}
       /\ pure.out = "EXCLUSIVE"
          <=> ~o.ReadOnly /\ o.Isolation \in {"LevelWriteCommitted", "LevelSnapshot"}

\* The mode of a read-only serializable transaction has been selected, and it
\* is DEFERRED.
C18_Witness ==
    /\ pure.fn = "sqliteMode" /\ pure.pc = "done"
    /\ pure.arg = [ReadOnly |-> TRUE, Isolation |-> "LevelSerializable"]
    /\ pure.out = "DEFERRED"

\* The value a host value stands for once integers and bools are taken as
\* int64 and floats as float64.
Normalized(value) ==
    CASE value.kind \in IntKinds -> [kind |-> "int64", v |-> value.v]
      [] value.kind = "bool" -> [kind |-> "int64", v |-> IF value.v[1] THEN <<0, 1>> ELSE <<0, 0>>]
      [] value.kind = "float32" -> [kind |-> "float64", v |-> value.v]
      [] OTHER -> value

\* C19: a host value that is bound to a parameter and read back as a column
\* comes back as the equal value, integers and bools as the int64 of the same
\* value.
C19_RoundTrip ==
    (pure.fn = "roundTrip" /\ pure.pc = "done")
    => /\ pure.out.kind = Normalized(pure.arg).kind
       /\ pure.out.v = Normalized(pure.arg).v

\* The number of nanoseconds since the epoch of a time, as digits.
UnixNano(t) == Strip(t.sec \o Zeros(Len(nanosecondsPerSecond) - 1 - Len(t.nsec)) \o t.nsec)

\* C20: parseTimeInteger rejects a negative integer; it reads an integer below
\* 10^12 as seconds, from 10^12 and below 10^15 as milliseconds, from 10^15 and
\* below 10^18 as microseconds and from 10^18 as nanoseconds since the epoch,
\* and the time it returns is the integer scaled by that unit.
C20_ParseTimeInteger ==
    (pure.fn = "parseTimeInteger" /\ pure.pc = "done")
    => LET i == pure.arg
           n == Len(i.d)
           scale == IF n <= 12 THEN 9 ELSE IF n <= 15 THEN 6 ELSE IF n <= 18 THEN 3 ELSE 0
       IN IF i.neg
          THEN ~pure.out.ok
          ELSE /\ pure.out.ok
               /\ Len(pure.out.nsec) <= 9
               /\ UnixNano(pure.out) = Strip(i.d \o Zeros(scale))

\* An integer of thirteen digits has been parsed as milliseconds: its last
\* three digits are in the nanoseconds of the time.
C20_Witness ==
    /\ pure.fn = "parseTimeInteger" /\ pure.pc = "done"
    /\ ~pure.arg.neg /\ Len(pure.arg.d) = 13 /\ pure.arg.d[13] = 7
    /\ pure.out.ok /\ pure.out.nsec # <<0>>

\* The operations that take a context (Rows.Next: the context of its query).
CtxUses ==
    {"Prepare", "BeginTx", "ExecDirect", "ConnExec", "ConnQuery", "Ping", "ResetSession",
     "StmtExec", "StmtQuery", "RowsNext"}

\* C13: an operation that takes a context and is called when the context is
\* cancelled returns the context's error at once: it does not take the lock,
\* issues no native call, and changes nothing of the connection, the
\* transactions, the statements, the cursors or the engine.
C13_CancelledContext ==
    [][\A p \in Procs :
          (Idle(p) /\ calls' = calls + 1 /\ proc'[p].op # "none"
             /\ "cancelled" \in (IF proc'[p].outer = "none" THEN proc'[p].pre
                                  ELSE proc'[p].opre))
          => /\ proc'[p].op \in CtxUses
             /\ proc'[p].pc = "idle"
             /\ proc'[p].res = "ctxErr"
             /\ proc'[p].log = <<>>
             /\ proc'[p].wrote = 0
             /\ UNCHANGED <<connVars, txs, sts, engVars>>
             /\ \A r \in RowIds :
                  [rws'[r] EXCEPT !.ctxDone = rws[r].ctxDone] = rws[r]]_vars

\* A Next on a cursor that has rows left, called when the context of its query
\* is cancelled, has returned the context's error.
C13_Witness ==
    \E p \in Procs :
        /\ Returned(p) /\ proc[p].op = "RowsNext"
        /\ proc[p].pre = {"cancelled"} /\ proc[p].res = "ctxErr"
        /\ ~rws[proc[p].obj].done

\* C23: a Rows.Close returns success whenever it is called; it issues one
\* native reset of the statement when the cursor is not done and no native
\* call when it is, leaves the cursor done, and never finalizes.
C23_RowsClose ==
    \A p \in Procs :
        (Returned(p) /\ proc[p].op = "RowsClose")
        => /\ proc[p].res = "ok"
           /\ Fns(proc[p]) \subseteq {"reset"}
           /\ Len(proc[p].log) = (IF "done" \in proc[p].pre THEN 0 ELSE 1)
           /\ rws[proc[p].obj].done

\* A Close of a cursor that an earlier Close or the end of its rows left done
\* has returned success without a native call.
C23_Witness ==
    \E p \in Procs :
        /\ Returned(p) /\ proc[p].op = "RowsClose"
        /\ "done" \in proc[p].pre /\ proc[p].res = "ok" /\ proc[p].log = <<>>

\* C27: the closed flag of the connection changes only from false to true,
\* and only in the step of a Conn.Close that holds the lock and whose native
\* close has just returned success; it never goes back to false.
C27_ClosedFlag ==
    [][closed' # closed
       => /\ ~closed /\ closed'
          /\ \E p \in Procs :
               /\ proc[p].op = "Close" /\ proc[p].pc = "close_ret"
               /\ mu = p
               /\ proc[p].rc = SQLITE_OK
               /\ proc[p].log[Len(proc[p].log)].fn = "close"
               /\ ~dbOpen]_vars

\* A Close of an open connection has returned success and the flag is set.
C27_Witness ==
    \E p \in Procs :
        /\ Returned(p) /\ proc[p].op = "Close"
        /\ "closed" \notin proc[p].pre /\ proc[p].res = "ok"
        /\ closed

\* C24: every operation that returned the error of a failed native call asked
\* the engine for its current message (sqlite3_errmsg) after the failing
\* call, so that the error carries that message whenever there is one.
C24_EngineMessage ==
    \A p \in Procs :
        (Returned(p) /\ proc[p].res \in {"nativeErr", "finalizeErr"})
        => \E i \in 1..Len(proc[p].log) :
               /\ proc[p].log[i].fn = "errmsg"
               /\ i > 1
               /\ proc[p].log[i - 1].fn \notin {"errmsg", "errcode"}

\* C26: whenever no call is in progress, the registry of the connection holds
\* exactly the Statements that a prepare returned and that neither their own
\* Close nor the Close of the connection has finalized.
C26_RegistryExact ==
    (\A p \in Procs : Idle(p))
    => Registered = {s \in StmtIds : sts[s].alloc /\ ~Finalized(s)}

\* C25: a Conn.Close of an open connection has issued one native finalize for
\* each statement that was registered when it took the lock, whatever the
\* finalizes returned, and after them one native close; its result is success
\* exactly when the native close returned success.
C25_CloseFinalizesAll ==
    \A p \in Procs :
        (Returned(p) /\ proc[p].op = "Close" /\ "closed" \notin proc[p].pre)
        => LET log == proc[p].log
               n == Len(log) IN
           /\ n = Cardinality(proc[p].reg) + 1
           /\ log[n].fn = "close"
           /\ \A i \in 1..(n - 1) : log[i].fn = "finalize"
           /\ \A s \in proc[p].reg : \E i \in 1..(n - 1) : log[i].h = sts[s].stmt
           /\ proc[p].res = (IF log[n].rc = SQLITE_OK THEN "ok" ELSE "nativeErr")

\* C28: a Conn.ExecContext without arguments on an open connection has issued
\* sqlite3_exec once, first, and no prepare, bind, step or finalize.  With
\* arguments it has issued no sqlite3_exec; its prepare, binds, step and
\* finalize come in that order, with at most one prepare and one step; a
\* success has one bind per argument and one step; whenever its prepare
\* produced a statement, on success and on every error, its last such call
\* is the one finalize of that statement, and the registry holds the
\* statements it held when the call began.
C28_ConnExec ==
    \A p \in Procs :
        /\ (Returned(p) /\ proc[p].op = "ExecDirect" /\ proc[p].pre = {})
           => /\ proc[p].log[1].fn = "exec"
              /\ Cardinality({i \in 1..Len(proc[p].log) : proc[p].log[i].fn = "exec"}) = 1
              /\ Fns(proc[p]) \cap {"prepare", "bind", "step", "finalize"} = {}
        /\ (Returned(p) /\ proc[p].op = "ConnExec")
           => LET IsStage(c) == c.fn \in {"prepare", "bind", "step", "finalize"}
                  L == SelectSeq(proc[p].log, IsStage)
                  Stage(i) == CASE L[i].fn = "prepare" -> 1
                                [] L[i].fn = "bind" -> 2
                                [] L[i].fn = "step" -> 3
                                [] OTHER -> 4
                  Count(fn) == Cardinality({i \in 1..Len(L) : L[i].fn = fn})
                  s == proc[p].obj IN
              /\ "exec" \notin Fns(proc[p])
              /\ \A i \in 1..Len(L), j \in 1..Len(L) : i < j => Stage(i) <= Stage(j)
              /\ Count("prepare") <= 1 /\ Count("step") <= 1
              /\ L # <<>> => L[1].fn = "prepare"
              /\ proc[p].res = "ok" => Count("bind") = proc[p].k /\ Count("step") = 1
              /\ s = 0 => Len(L) <= 1
              /\ s # 0 => /\ Count("finalize") = 1
                          /\ L[Len(L)].fn = "finalize"
                          /\ L[Len(L)].h = sts[s].stmt
                          /\ Finalized(s)
              /\ Registered = proc[p].reg

\* A Conn.ExecContext with arguments whose step failed has returned that
\* error with its statement finalized, another statement being registered.
C28_Witness ==
    \E p \in Procs :
        /\ Returned(p) /\ proc[p].op = "ConnExec" /\ proc[p].res = "nativeErr"
        /\ \E i \in 1..Len(proc[p].log) :
             proc[p].log[i].fn = "step" /\ proc[p].log[i].rc # SQLITE_DONE
        /\ proc[p].obj # 0 /\ Finalized(proc[p].obj)
        /\ proc[p].reg # {} /\ Registered = proc[p].reg

\* The native binds an operation issued, in the order it issued them, and
\* its arguments with a positive ordinal, in the order of the list.
Binds(r) == LET IsBind(c) == c.fn = "bind" IN SelectSeq(r.log, IsBind)
Given(r) == LET IsGiven(a) == a.ord > 0 IN SelectSeq(r.args, IsGiven)

\* C29: a successful Stmt.ExecContext whose arguments carry the ordinals 1..n
\* in any order has issued its native binds in increasing ordinal order: the
\* i-th bind is the bind of parameter i.
C29_OrdinalOrder ==
    \A p \in Procs :
        (/\ Returned(p) /\ proc[p].op = "StmtExec" /\ proc[p].res = "ok"
         /\ {proc[p].args[i].ord : i \in 1..Len(proc[p].args)} = 1..Len(proc[p].args))
        => \A i \in 1..Len(Binds(proc[p])) : Binds(proc[p])[i].idx = i

\* C29: a Stmt.ExecContext has issued its native binds in the order of the
\* argument list, each at the ordinal of its argument: for arguments listed
\* by ordinal 1..n that is increasing ordinal order from 1.  An argument with
\* a non-positive ordinal has caused neither a bind nor an error: a success
\* has one bind per argument with a positive ordinal, and bindable arguments
\* whose binds succeeded are all bound.
C29_ListOrder ==
    \A p \in Procs :
        (Returned(p) /\ proc[p].op = "StmtExec")
        => LET B == Binds(proc[p])
               P == Given(proc[p]) IN
           /\ Len(B) <= Len(P)
           /\ \A i \in 1..Len(B) : B[i].idx = P[i].ord
           /\ (\A i \in 1..Len(proc[p].args) : proc[p].args[i].ord = i)
              => \A i \in 1..Len(B) : B[i].idx = i
           /\ proc[p].res = "ok" => Len(B) = Len(P)
           /\ (/\ proc[p].pre = {}
               /\ \A i \in 1..Len(P) : P[i].val \in {"int", "null", "valuerInt"}
               /\ \A i \in 1..Len(B) : B[i].rc = SQLITE_OK)
              => Len(B) = Len(P) /\ proc[p].res \in {"ok", "nativeErr"}

\* A Stmt.ExecContext given parameter 2 before parameter 1 has succeeded,
\* having bound 2 and then 1.
C29_Witness ==
    \E p \in Procs :
        /\ Returned(p) /\ proc[p].op = "StmtExec" /\ proc[p].res = "ok"
        /\ Len(proc[p].args) = 2
        /\ proc[p].args[1].ord = 2 /\ proc[p].args[2].ord = 1
        /\ Len(Binds(proc[p])) = 2
        /\ Binds(proc[p])[1].idx = 2 /\ Binds(proc[p])[2].idx = 1

\* C30: in a Stmt.ExecContext a driver.Valuer is asked for its value before
\* the type of the argument is looked at: one that returns a bindable value
\* is bound like that value.  The call fails with the valuer's error exactly
\* when the first argument not yet bound is a Valuer whose Value() fails, and
\* with the unsupported-type error exactly when it is of a type outside the
\* supported set; the error names that argument's ordinal (and the type), and
\* no native bind has been issued for it.
C30_ValuerFirst ==
    \A p \in Procs :
        (Returned(p) /\ proc[p].op = "StmtExec" /\ proc[p].pre = {})
        => LET B == Binds(proc[p])
               P == Given(proc[p])
               j == Len(B) + 1
               AllBound == \A i \in 1..Len(B) : B[i].rc = SQLITE_OK
               Stopped(v) == AllBound /\ j <= Len(P) /\ P[j].val = v IN
           /\ \A i \in 1..Len(B) : B[i].idx = P[i].ord /\ P[i].val \in {"int", "null", "valuerInt"}
           /\ proc[p].res = "valuerErr" <=> Stopped("valuerErr")
           /\ proc[p].res = "valuerErr" => proc[p].detail = <<P[j].ord, "valuer error">>
           /\ proc[p].res = "unsupportedType" <=> Stopped("unsupported")
           /\ proc[p].res = "unsupportedType" => proc[p].detail = <<P[j].ord, "unsupported">>

\* A Stmt.ExecContext whose first argument is a Valuer that returned a value
\* and whose second is a Valuer that failed has bound the first and returned
\* the error of the second, naming ordinal 2.
C30_Witness ==
    \E p \in Procs :
        /\ Returned(p) /\ proc[p].op = "StmtExec" /\ proc[p].res = "valuerErr"
        /\ Len(proc[p].args) = 2
        /\ proc[p].args[1] = [ord |-> 1, val |-> "valuerInt"]
        /\ proc[p].args[2] = [ord |-> 2, val |-> "valuerErr"]
        /\ Len(Binds(proc[p])) = 1 /\ Binds(proc[p])[1].idx = 1
        /\ proc[p].detail[1] = 2

\* C21: a decoded text or blob column has exactly the bytes the engine holds
\* for it, as many as sqlite3_column_bytes reports, zero bytes included.
C21_ExactBytes ==
    (pure.fn = "scanColumn" /\ pure.pc = "done")
    => /\ Len(pure.out.v) + pure.out.pad = sqlite3_column_bytes(pure.mid)
       /\ pure.out.v = pure.mid.v

\* C22: a connection that Open returned has the busy timeout its data source
\* name gives as a positive number of milliseconds, and 5000 ms when the name
\* gives none: a plain path, ":memory:", or a file: URI without the parameter
\* or with a value that is not a positive number.
C22_BusyTimeout ==
    (pure.fn = "Open" /\ pure.pc = "done" /\ pure.out.ok)
    => LET given == Atoi(pure.arg.bt) IN
       pure.out.busy = (IF pure.arg.form = "file:" /\ given.ok /\ given.v > 0
                        THEN given.v
                        ELSE 5000)

\* C31: an unsigned integer of any width is bound as the 64-bit signed integer
\* of the same numeric value, also when the value is 2^63 or more.
C31_UnsignedValue ==
    (/\ pure.fn = "roundTrip" /\ pure.pc \in {"bound", "done"}
     /\ pure.arg.kind \in {"uint64", "uint", "uint32", "uint16", "uint8"})
    => pure.mid = [type |-> SQLITE_INTEGER, v |-> pure.arg.v, pad |-> 0]

\* C32: parseTimeFloat reads a float from 1721425.5 to 5373484.5, both
\* inclusive, as a Julian day, the time being (f - 2440587.5) * 86400 seconds
\* from the epoch; any other float from 0 to 253402300799 as Unix seconds,
\* its fraction as nanoseconds; and it rejects every other float.
C32_FloatRanges ==
    (pure.fn = "parseTimeFloat" /\ pure.pc = "done")
    => LET f == pure.arg
           RECURSIVE Value(_)
           Value(d) == IF d = <<>> THEN 0 ELSE 10 * Value(SubSeq(d, 1, Len(d) - 1)) + d[Len(d)]
           n == Len(f.d)
           \* the integer part in millions and units, and twice a magnitude below 10^9
           millions == Value(SubSeq(f.d, 1, n - 6))
           units == Value(SubSeq(f.d, IF n > 6 THEN n - 5 ELSE 1, n))
           twice == 2 * Value(f.d) + (IF f.half THEN 1 ELSE 0)
           Julian == /\ f.kind = "num" /\ ~f.neg /\ n <= 9
                     /\ twice >= 3442851 /\ twice <= 10746969
           Unix == /\ f.kind = "num"
                   /\ f.neg => (f.d = <<0>> /\ ~f.half)
                   /\ n <= 12
                   /\ \/ millions < 253402
                      \/ millions = 253402 /\ units < 300799
                      \/ millions = 253402 /\ units = 300799 /\ ~f.half
           days2 == twice - 4881175
           mag == IF days2 < 0 THEN 0 - days2 ELSE days2
           m == Len(pure.out.sec)
       IN IF Julian
          THEN /\ pure.out.ok
               /\ pure.out.nsec = <<0>>
               /\ pure.out.neg = (days2 < 0)
               /\ Value(SubSeq(pure.out.sec, IF m > 5 THEN m - 4 ELSE 1, m))
                    = 100 * (((mag % 1000) * 432) % 1000)
               /\ mag = 0 => pure.out.sec = <<0>>
               /\ mag = 2 => pure.out.sec = <<8, 6, 4, 0, 0>>
               /\ twice = 4920769 => pure.out.sec = <<1, 7, 1, 0, 4, 6, 0, 8, 0, 0>>
               /\ twice = 3442851 => pure.out.sec = <<6, 2, 1, 3, 5, 5, 9, 6, 8, 0, 0>>
               /\ twice = 10746969 => pure.out.sec = <<2, 5, 3, 4, 0, 2, 3, 0, 0, 8, 0, 0>>
          ELSE IF Unix
          THEN pure.out = [ok |-> TRUE, neg |-> FALSE, sec |-> f.d,
                           nsec |-> IF f.half THEN <<5, 0, 0, 0, 0, 0, 0, 0, 0>> ELSE <<0>>]
          ELSE ~pure.out.ok

\* C33: a Rows.Next on a cursor that is not done, whose step returned a row
\* and whose number of destination slots is not the number of columns, has
\* returned the count-mismatch error and written no slot; the step is its only
\* native call (the row it advanced to is neither read nor stepped back to),
\* and the cursor is not marked done.
C33_DestMismatch ==
    \A p \in Procs :
        (/\ Returned(p) /\ proc[p].op = "RowsNext"
         /\ "mismatch" \in proc[p].pre
         /\ "done" \notin proc[p].pre /\ "cancelled" \notin proc[p].pre
         /\ Len(proc[p].log) >= 1 /\ proc[p].log[1].rc = SQLITE_ROW)
        => /\ proc[p].res = "destMismatch"
           /\ proc[p].wrote = 0
           /\ Len(proc[p].log) = 1 /\ proc[p].log[1].fn = "step"
           /\ ~rws[proc[p].obj].done

\* A Next given no slot for the one column of a live cursor has stepped to a
\* row and returned the count-mismatch error; the cursor is not done.
C33_Witness ==
    \E p \in Procs :
        /\ Returned(p) /\ proc[p].op = "RowsNext"
        /\ proc[p].pre = {"mismatch"} /\ proc[p].res = "destMismatch"
        /\ proc[p].log[1].fn = "step" /\ proc[p].log[1].rc = SQLITE_ROW
        /\ rws[proc[p].obj].ncols = 1 /\ ~rws[proc[p].obj].done

\* C34: no native statement handle is passed to the native finalize after it
\* has been finalized: every finalize is issued for a statement whose handle
\* has not been finalized before.
C34_FinalizeOnce ==
    \A p \in Procs :
        \A c \in NativeCalls(proc[p]) : c.fn = "finalize" => ~c.stale

\* C35: no native call is issued on the database handle after the native
\* close of that handle has succeeded.
C35_NoUseAfterClose ==
    \A p \in Procs :
        \A c \in NativeCalls(proc[p]) : c.h = DB => ~c.stale

\* C36: a Commit or Rollback of a transaction that another call has finished
\* issues no native COMMIT or ROLLBACK while a newer transaction of the
\* connection is open; a native COMMIT or ROLLBACK succeeds for a transaction
\* only while it is unfinished, so at most once; and the slot cleared after
\* it is that of the transaction itself.
C36_TxEndOnce ==
    [][\A p \in Procs :
          /\ (proc[p].pc \in {"commit_lock", "rollback_lock"}
                /\ proc'[p].pc \in {"commit_ret", "rollback_ret"})
             => ~(txs[proc[p].obj].finished /\ OpenTxs # {})
          /\ (proc[p].pc \in {"commit_ret", "rollback_ret"}
                /\ proc[p].rc = SQLITE_OK /\ proc'[p].pc = "idle")
             => ~txs[proc[p].obj].finished
          /\ (proc[p].pc \in {"commit_ret", "rollback_ret"}
                /\ proc[p].rc = SQLITE_OK /\ proc'[p].pc = "idle")
             => tx = proc[p].obj]_vars

\* ------------------------------------------------------------ termination

\* Concurrent callers: either MaxCalls operations of the connection and its
\* transactions, or MaxLiveCalls operations of any kind.
InitLive == Opened /\ serial \in {0, 0 - MaxLiveCalls} /\ pure = NoPure

\* The steps of caller p: every operation of Conn, Tx, Stmt and Rows.  Where
\* the callers use statements the query has MaxParams parameters and MaxCols
\* columns, and one Conn.ExecContext or Conn.QueryContext with arguments is
\* under way at a time.
LiveOps(p) ==
    LET LiveQuery == [kind |-> "sql", np |-> MaxParams, nc |-> MaxCols]
        OneComposite == \A q \in Procs : proc[q].outer = "none" \/ proc[q].pc = "idle"
    IN  \/ TxOps(p)
        \/ \E c \in BOOLEAN, q \in (IF serial < 0 THEN {LiveQuery} ELSE ConnQueries) :
             PrepareContext(p, c, q)
        \/ PrepareExec(p)
        \/ PrepareReturn(p)
        \/ DirectOps(p)
        \/ CloseOps(p)
        \/ SessionOps(p)
        \/ ErrOps(p)
        \/ serial < 0 /\ OneComposite
             /\ \E c \in BOOLEAN, k \in MaxParams..MaxArgs : ConnExecContext(p, c, LiveQuery, k)
        \/ serial < 0 /\ OneComposite
             /\ \E c \in BOOLEAN, k \in MaxParams..MaxArgs : ConnQueryContext(p, c, LiveQuery, k)
        \/ ConnAfterPrepare(p)
        \/ ConnAfterStmt(p)
        \/ ConnAfterClose(p)
        \/ serial < 0 /\ StmtOps(p)
        \/ serial < 0 /\ RowsOps(p)

NextLive == \E p \in Procs : LiveOps(p)

\* The scheduler runs every goroutine that can take a step, and sync.Mutex
\* hands the lock to a goroutine that has waited for it (starvation mode): a
\* caller inside an operation whose next step is enabled again and again
\* takes it.
SpecLive ==
    /\ InitLive
    /\ [][NextLive]_vars
    /\ \A p \in Procs : SF_vars(proc[p].pc # "idle" /\ LiveOps(p))

\* C37: under fair scheduling every operation of Conn, Stmt, Rows and Tx that
\* a caller has entered returns, and the connection lock, once taken, is
\* released: no operation waits for a lock its own caller holds (Conn.ExecContext
\* and Conn.QueryContext take and release it inside PrepareContext).
C37_Returns ==
    /\ \A p \in Procs : (proc[p].pc # "idle") ~> (proc[p].pc = "idle")
    /\ (mu # 0) ~> (mu = 0)

\* The PrepareContext inside a Conn.ExecContext or Conn.QueryContext waits for
\* the lock that another caller holds.
C37_Witness ==
    \E p, q \in Procs :
        /\ p # q /\ mu = q
        /\ proc[p].outer # "none" /\ proc[p].pc = "prepare_lock"

\* C38: a Conn.QueryContext that failed after its prepare produced a
\* statement (at the argument count or at a bind) has finalized that statement
\* and left the registry as it found it; and once a cursor returned by
\* Conn.QueryContext is exhausted or closed (a Rows.Next or Rows.Close has
\* returned with the cursor done) its statement is finalized and out of the
\* registry.
C38_InternalFinalized ==
    \A p \in Procs :
        /\ (Returned(p) /\ proc[p].op = "ConnQuery" /\ proc[p].res # "ok" /\ proc[p].obj # 0)
           => /\ Finalized(proc[p].obj)
              /\ Registered = proc[p].reg
        /\ (Returned(p) /\ proc[p].op \in {"RowsNext", "RowsClose"}
              /\ rws[proc[p].obj].own /\ rws[proc[p].obj].done)
           => /\ Finalized(rws[proc[p].obj].stmt)
              /\ rws[proc[p].obj].stmt \notin Registered

\* C39: in a Stmt.ExecContext or Stmt.QueryContext that reached its binds,
\* let f be the first argument with a positive ordinal whose valuer failed,
\* whose type is unsupported or whose native bind failed.  The native binds
\* issued are those of the arguments before f, all successful, and that of
\* f when f reached its bind: none for a later argument.  The statement has
\* not been stepped or reset, nothing was read from it or from the
\* connection (no Result, no column count for a Row Cursor), and the call
\* returned the error of f.  Nothing is issued after the binds that would
\* undo them.
C39_BindFailure ==
    \A p \in Procs :
        (Returned(p) /\ proc[p].op \in {"StmtExec", "StmtQuery"} /\ proc[p].pre = {})
        => LET B == Binds(proc[p])
               P == Given(proc[p])
               Bindable(k) == Resolve(P[k].val) \in {"int", "null"}
               Failing == {k \in 1..Len(P) :
                             ~Bindable(k) \/ (k <= Len(B) /\ B[k].rc # SQLITE_OK)}
               f == CHOOSE k \in Failing : \A m \in Failing : k <= m
           IN  Failing # {}
               => /\ Len(B) = IF Bindable(f) THEN f ELSE f - 1
                  /\ \A i \in 1..Len(B) : B[i].idx = P[i].ord
                  /\ \A i \in 1..(f - 1) : B[i].rc = SQLITE_OK
                  /\ Fns(proc[p]) \cap {"step", "reset", "column_count", "column_name",
                                        "last_insert_rowid", "changes", "finalize"} = {}
                  /\ proc[p].res = IF Bindable(f) THEN "nativeErr"
                                   ELSE IF P[f].val = "valuerErr" THEN "valuerErr"
                                   ELSE "unsupportedType"
                  /\ \A i \in 1..Len(proc[p].log) :
                       proc[p].log[i].fn = "bind"
                       => \A j \in (i + 1)..Len(proc[p].log) :
                            proc[p].log[j].fn \in {"bind", "errmsg", "errcode"}

\* A Stmt.QueryContext with two arguments has bound the first and returned
\* the native error of the second bind.
C39_Witness ==
    \E p \in Procs :
        /\ Returned(p) /\ proc[p].op = "StmtQuery" /\ proc[p].pre = {}
        /\ proc[p].res = "nativeErr"
        /\ LET B == Binds(proc[p]) IN
           Len(B) = 2 /\ B[1].rc = SQLITE_OK /\ B[2].rc # SQLITE_OK

\* C40: a Conn.Close whose sqlite3_close failed has returned the error with
\* the connection as it was before the call: the closed flag is false, the
\* registry holds the statements it held, and none of them is finalized.
C40_CloseFailure ==
    \A p \in Procs :
        (Returned(p) /\ proc[p].op = "Close" /\ proc[p].res = "nativeErr")
        => /\ ~closed
           /\ Registered = proc[p].reg
           /\ \A s \in proc[p].reg : ~Finalized(s)

====
